---- MODULE Spec2Model ----
(***************************************************************************)
(* GoldCleaner (src-tauri/src/lib.rs): the category scan-and-clean engine  *)
(* and the ad-hoc path cleaner, over a small Windows-like filesystem.      *)
(*                                                                         *)
(* A path string is a sequence of one-character strings, so that the       *)
(* code's string operations (replace, to_lowercase, starts_with, ...) are  *)
(* computed character by character.  A filesystem node is the sequence of  *)
(* its lower-cased components, the drive first.                            *)
(***************************************************************************)
EXTENDS Integers, Sequences, FiniteSets, TLC

VARIABLES env, locked, shell, now, fs, calls, call, workers

vars == <<env, locked, shell, now, fs, calls, call, workers>>

(***************************************************************************)
(* Strings                                                                 *)
(***************************************************************************)
BS == "\\"

Seps == {"\\", "/"}

\* the element of a one-element set: TheOne({e(x) : x \in {v}}) is e(v) with v
\* computed once
TheOne(S) == CHOOSE x \in S : TRUE

\* char::to_lowercase on the letters the model's paths use
to_lowercase(ch) ==
  CASE ch = "A" -> "a" [] ch = "B" -> "b" [] ch = "C" -> "c" [] ch = "D" -> "d"
    [] ch = "M" -> "m" [] ch = "O" -> "o" [] ch = "P" -> "p" [] ch = "T" -> "t"
    [] ch = "U" -> "u" [] ch = "W" -> "w" [] OTHER -> ch

\* path.replace('/', "\\").to_lowercase()
normalize_path_str(path) ==
  [i \in 1..Len(path) |-> to_lowercase(IF path[i] = "/" THEN BS ELSE path[i])]

\* Path::to_string_lossy followed by normalize_path_str
normalize_path(path) == normalize_path_str(path)

starts_with(s, p) ==
  /\ Len(p) <= Len(s)
  /\ SubSeq(s, 1, Len(p)) = p

ends_with(s, ch) == Len(s) > 0 /\ s[Len(s)] = ch

RECURSIVE trim_end_matches(_, _)
trim_end_matches(s, ch) ==
  IF ends_with(s, ch) THEN trim_end_matches(SubSeq(s, 1, Len(s) - 1), ch) ELSE s

\* PathBuf::join of a relative component sequence onto a base
join(base, name) ==
  IF Len(base) > 0 /\ base[Len(base)] \in Seps
    THEN base \o name
    ELSE base \o <<BS>> \o name

path_eq_ignore_case(left, right) == normalize_path(left) = normalize_path(right)

(***************************************************************************)
(* The filesystem the calls act on.  Nodes are fixed; fs is the set of     *)
(* nodes that currently exist.                                             *)
(***************************************************************************)
VolC == << <<"c", ":">> >>
VolD == << <<"d", ":">> >>

nW    == VolC \o << <<"w">> >>
nWT   == nW \o << <<"t", "m", "p">> >>
nA    == nWT \o << <<"a">> >>
nWTD  == nWT \o << <<"d">> >>
nB    == nWTD \o << <<"b">> >>
nK    == nW \o << <<"k">> >>
nS    == nW \o << <<"s">> >>
nSN   == nS \o << <<"n">> >>
nF    == nSN \o << <<"f">> >>
nSO   == nS \o << <<"o">> >>
nSOH  == nSO \o << <<"h">> >>
nH    == nSOH \o << <<"c">> >>
nU    == VolC \o << <<"u">> >>
nUD   == nU \o << <<"d">> >>
nO    == nUD \o << <<"o">> >>
nP    == nUD \o << <<"p">> >>
nQ    == nUD \o << <<"q">> >>
nV    == nUD \o << <<"v">> >>
nL    == nU \o << <<"l">> >>
nLT   == nL \o << <<"t", "m", "p">> >>
nE    == nLT \o << <<"e">> >>
nLTT  == nLT \o << <<"t", "m", "p">> >>
nX    == nLTT \o << <<"x">> >>
nR    == VolC \o << <<"r">> >>
nG    == nR \o << <<"g">> >>
nZ    == VolD \o << <<"z">> >>

\* every node, parents before children, siblings in directory order
AllNodes ==
  << VolC, nR, nG, nU, nUD, nO, nP, nQ, nV, nL, nLT, nE, nLTT, nX,
     nW, nK, nS, nSN, nF, nSO, nSOH, nH, nWT, nA, nWTD, nB, VolD, nZ >>

\* every node, children before parents, siblings in directory order
PostNodes ==
  << nG, nR, nO, nP, nQ, nV, nUD, nE, nX, nLTT, nLT, nL, nU,
     nK, nF, nSN, nH, nSOH, nSO, nS, nA, nB, nWTD, nWT, nW, VolC, nZ, VolD >>

FileNodes == {nA, nB, nK, nF, nH, nO, nP, nQ, nV, nE, nX, nG, nZ}

NodeSet == {AllNodes[i] : i \in 1..Len(AllNodes)}

DirNodes == NodeSet \ FileNodes

\* the name a directory listing shows for the node's last component
DisplayName(n) ==
  IF n = nA THEN <<"A">> ELSE n[Len(n)]

\* metadata.len()
SizeOf(n) ==
  CASE n = nA -> 1 [] n = nB -> 2 [] n = nK -> 4 [] n = nF -> 8 [] n = nO -> 16
    [] n = nP -> 32 [] n = nQ -> 64 [] n = nE -> 128 [] n = nG -> 256
    [] n = nZ -> 512 [] n = nV -> 1024 [] n = nH -> 2048
    [] n = nX -> 2097152 [] OTHER -> 0

IsUnder(d, n) == Len(n) >= Len(d) /\ SubSeq(n, 1, Len(d)) = d

StrictlyUnder(d, n) == Len(n) > Len(d) /\ SubSeq(n, 1, Len(d)) = d

NoNode == << >>

\* Windows path resolution of an absolute "X:\..." string: separators of
\* either kind, empty and "." components dropped, ".." resolved lexically.
PushComponent(node, cur) ==
  IF cur = << >> \/ cur = <<".">> THEN node
  ELSE IF cur = <<".", ".">>
         THEN (IF Len(node) > 1 THEN SubSeq(node, 1, Len(node) - 1) ELSE node)
         ELSE Append(node, cur)

RECURSIVE ResolveFrom(_, _, _, _)
ResolveFrom(s, i, node, cur) ==
  IF i > Len(s) THEN PushComponent(node, cur)
  ELSE IF s[i] \in Seps
    THEN TheOne({ResolveFrom(s, i + 1, n, << >>) : n \in {PushComponent(node, cur)}})
    ELSE TheOne({ResolveFrom(s, i + 1, node, c) : c \in {Append(cur, to_lowercase(s[i]))}})

Resolve(s) ==
  IF Len(s) >= 3 /\ s[2] = ":" /\ s[3] \in Seps
    THEN ResolveFrom(s, 4, << <<to_lowercase(s[1]), ":">> >>, << >>)
    ELSE NoNode

\* Path::exists / Path::is_file / Path::is_dir on the filesystem f
Exists(f, s) == Resolve(s) \in f

IsFile(f, s) ==
  /\ Resolve(s) \in f
  /\ Resolve(s) \in FileNodes
  /\ ~ends_with(s, BS) /\ ~ends_with(s, "/")

IsDir(f, s) == Resolve(s) \in f /\ Resolve(s) \in DirNodes

(***************************************************************************)
(* Time.  SystemTime is counted in seconds from the earliest instant the   *)
(* platform represents.                                                    *)
(***************************************************************************)
SecsPerDay == 86400

DownloadsDays == 30

TimeMin == 0

UNIX_EPOCH == 1000000

NowStart == 3000000

NoTime == -1

\* metadata.modified(): NoTime when the platform gives none
ModifiedOf(n) ==
  CASE n = nO -> NowStart - DownloadsDays * SecsPerDay - 1
    [] n = nP -> NowStart - DownloadsDays * SecsPerDay
    [] n = nQ -> NoTime
    [] n = nB -> NowStart - DownloadsDays * SecsPerDay - 100
    [] n = nF -> NowStart - DownloadsDays * SecsPerDay - 100
    [] n = nG -> NowStart - DownloadsDays * SecsPerDay - 100
    [] OTHER -> NowStart - 10

None == [some |-> FALSE]

Some(v) == [some |-> TRUE, v |-> v]

Standard == [tag |-> "Standard"]

DownloadsOlderThan(days) == [tag |-> "DownloadsOlderThan", days |-> days]

\* a mutant of cutoff_time that falls back to the earliest instant
cutoff_time_min(kind, t) ==
  IF kind.tag = "Standard" THEN None
  ELSE IF t - kind.days * SecsPerDay >= TimeMin
         THEN Some(t - kind.days * SecsPerDay)
         ELSE Some(TimeMin)

\* SystemTime::now().checked_sub(days * 86400).or(Some(UNIX_EPOCH))
cutoff_time(kind, t) ==
  IF kind.tag = "Standard" THEN None
  ELSE IF t - kind.days * SecsPerDay >= TimeMin
         THEN Some(t - kind.days * SecsPerDay)
         ELSE Some(UNIX_EPOCH)

\* a mutant of matches_cutoff that admits the file exactly at the cutoff
matches_cutoff_le(meta, cutoff) ==
  IF cutoff.some
    THEN (IF meta.modified = NoTime THEN FALSE ELSE meta.modified <= cutoff.v)
    ELSE TRUE

matches_cutoff(meta, cutoff) ==
  IF cutoff.some
    THEN (IF meta.modified = NoTime THEN FALSE ELSE meta.modified < cutoff.v)
    ELSE TRUE

(***************************************************************************)
(* Operating-system calls, as results on a filesystem f                    *)
(***************************************************************************)
ErrNotFound == "os error: not found"

ErrDenied == "os error: access denied"

ErrNotEmpty == "os error: directory not empty"

\* Path::metadata
Metadata(f, s) ==
  LET n == Resolve(s) IN
  IF n \in f /\ (n \in DirNodes \/ ~(ends_with(s, BS) \/ ends_with(s, "/")))
    THEN [ok |-> TRUE, is_dir |-> n \in DirNodes, is_file |-> n \in FileNodes,
          len |-> SizeOf(n), modified |-> ModifiedOf(n)]
    ELSE [ok |-> FALSE, err |-> ErrNotFound]

\* DirEntry::metadata of a walked node
EntryMetadata(n) ==
  [ok |-> TRUE, is_dir |-> n \in DirNodes, is_file |-> n \in FileNodes,
   len |-> SizeOf(n), modified |-> ModifiedOf(n)]

\* fs::remove_file
RemoveFile(f, lk, s) ==
  LET n == Resolve(s) IN
  IF ~IsFile(f, s) /\ ~IsDir(f, s) THEN [ok |-> FALSE, err |-> ErrNotFound, fs |-> f]
  ELSE IF n \in DirNodes \/ n \in lk THEN [ok |-> FALSE, err |-> ErrDenied, fs |-> f]
  ELSE [ok |-> TRUE, fs |-> f \ {n}]

HasChildren(f, n) == \E m \in f : StrictlyUnder(n, m)

\* fs::remove_dir: removes an empty directory only
RemoveDir(f, lk, s) ==
  LET n == Resolve(s) IN
  IF ~IsDir(f, s) THEN [ok |-> FALSE, err |-> ErrNotFound, fs |-> f]
  ELSE IF HasChildren(f, n) THEN [ok |-> FALSE, err |-> ErrNotEmpty, fs |-> f]
  ELSE IF n \in lk \/ Len(n) = 1 THEN [ok |-> FALSE, err |-> ErrDenied, fs |-> f]
  ELSE [ok |-> TRUE, fs |-> f \ {n}]

\* fs::remove_dir_all: children first, in directory order, stopping at the
\* first entry that cannot be removed (what was removed before stays
\* removed); a volume root itself cannot be removed
RECURSIVE RemoveDirAllFrom(_, _, _, _)
RemoveDirAllFrom(f, lk, d, i) ==
  IF i > Len(PostNodes) THEN [ok |-> TRUE, fs |-> f]
  ELSE LET n == PostNodes[i] IN
       IF n \in f /\ IsUnder(d, n)
         THEN IF n \in lk \/ Len(n) = 1
                THEN [ok |-> FALSE, err |-> ErrDenied, fs |-> f]
                ELSE TheOne({RemoveDirAllFrom(g, lk, d, i + 1) : g \in {f \ {n}}})
         ELSE RemoveDirAllFrom(f, lk, d, i + 1)

RemoveDirAll(f, lk, s) ==
  IF ~IsDir(f, s) THEN [ok |-> FALSE, err |-> ErrNotFound, fs |-> f]
  ELSE TheOne({RemoveDirAllFrom(f, lk, d, 1) : d \in {Resolve(s)}})

\* WalkDir::new(root).follow_links(false): the root entry first, then what
\* lies under it, each path being the root string joined with listed names
RECURSIVE EntryPath(_, _, _)
EntryPath(root, rootNode, n) ==
  IF Len(n) <= Len(rootNode) THEN root
  ELSE join(EntryPath(root, rootNode, SubSeq(n, 1, Len(n) - 1)), DisplayName(n))

WalkEntries(root, rn, under) ==
  [i \in 1..Len(under) |-> [path |-> EntryPath(root, rn, under[i]),
                             node |-> under[i],
                             is_dir |-> under[i] \in DirNodes,
                             is_file |-> under[i] \in FileNodes]]

WalkDir(f, root) ==
  TheOne({ TheOne({ WalkEntries(root, rn, under) :
                    under \in {SelectSeq(AllNodes, LAMBDA n : n \in f /\ IsUnder(rn, n))} }) :
           rn \in {Resolve(root)} })

(***************************************************************************)
(* The category catalog.  Directory names are abbreviated: w Windows,      *)
(* tmp Temp, u the user profile, l its AppData\Local, d Downloads,         *)
(* s SoftwareDistribution, n Download, r $Recycle.Bin, and so on.          *)
(***************************************************************************)
Str_C == <<"C", ":">>

Nm_Windows == <<"w">>

Nm_Temp == <<"t", "m", "p">>

Nm_Downloads == <<"d">>

Nm_SoftwareDistribution == <<"s">>

Nm_Download == <<"n">>

Nm_DeliveryOptimization == <<"o">>

Nm_Cache == <<"h">>

Nm_Logs == <<"l">>

Nm_System32 == <<"y">>

Nm_LogFiles == <<"f">>

Nm_Panther == <<"p">>

Nm_RecycleBin == <<"r">>

Nm_WindowsOld == <<"x">>

Nm_Microsoft == <<"m">>

Nm_INetCache == <<"i">>

Nm_Google == <<"g">>

Nm_Chrome == <<"c">>

Nm_UserData == <<"u">>

Nm_Default == <<"e">>

Nm_CodeCache == <<"k">>

Nm_Edge == <<"j">>

\* format!("{}\\<name>", drive)
format_under(drive, name) == drive \o <<BS>> \o name

\* one iteration of the loop of dedup_paths: st = [seen, output]
dedup_step(path, st) ==
  IF normalize_path(path) \in st.seen THEN st
  ELSE [seen |-> st.seen \cup {normalize_path(path)}, output |-> Append(st.output, path)]

RECURSIVE dedup_from(_, _, _)
dedup_from(paths, i, st) ==
  IF i > Len(paths) THEN st.output
  ELSE TheOne({dedup_from(paths, i + 1, n) : n \in {dedup_step(paths[i], st)}})

dedup_paths(paths) ==
  TheOne({dedup_from(ps, 1, [seen |-> {}, output |-> << >>]) : ps \in {paths}})

OptSeq(opt) == IF opt.some THEN <<opt.v>> ELSE << >>

CategoryDef(id, kind, roots, cleanup_dirs) ==
  [id |-> id, kind |-> kind, roots |-> roots, cleanup_dirs |-> cleanup_dirs]

temp_paths(e) ==
  << join(e.system_root, Nm_Temp), e.temp_dir >>
    \o (IF e.local_app_data.some THEN << join(e.local_app_data.v, Nm_Temp) >> ELSE << >>)

browser_paths(e) ==
  IF e.local_app_data.some
    THEN LET local == e.local_app_data.v IN
         << join(join(join(local, Nm_Microsoft), Nm_Windows), Nm_INetCache),
            join(join(join(join(join(local, Nm_Google), Nm_Chrome), Nm_UserData), Nm_Default), Nm_Cache),
            join(join(join(join(join(local, Nm_Google), Nm_Chrome), Nm_UserData), Nm_Default), Nm_CodeCache),
            join(join(join(join(join(local, Nm_Microsoft), Nm_Edge), Nm_UserData), Nm_Default), Nm_Cache),
            join(join(join(join(join(local, Nm_Microsoft), Nm_Edge), Nm_UserData), Nm_Default), Nm_CodeCache) >>
    ELSE << >>

recycle_bins(e) ==
  IF e.disks = << >>
    THEN << format_under(e.system_drive, Nm_RecycleBin) >>
    ELSE [i \in 1..Len(e.disks) |-> join(e.disks[i], Nm_RecycleBin)]

download_root(e) ==
  IF e.user_profile.some THEN << join(e.user_profile.v, Nm_Downloads) >> ELSE << >>

build_categories(e) ==
  << CategoryDef("temp_files", Standard, dedup_paths(temp_paths(e)), TRUE),
     CategoryDef("recycle_bin", Standard, dedup_paths(recycle_bins(e)), TRUE),
     CategoryDef("downloads_old", DownloadsOlderThan(DownloadsDays),
                 dedup_paths(download_root(e)), FALSE),
     CategoryDef("system_cache", Standard,
                 dedup_paths(<< join(join(e.system_root, Nm_SoftwareDistribution), Nm_Download),
                                join(join(join(e.system_root, Nm_SoftwareDistribution),
                                          Nm_DeliveryOptimization), Nm_Cache) >>), TRUE),
     CategoryDef("browser_cache", Standard, dedup_paths(browser_paths(e)), TRUE),
     CategoryDef("system_logs", Standard,
                 dedup_paths(<< join(e.system_root, Nm_Logs),
                                join(join(e.system_root, Nm_System32), Nm_LogFiles),
                                join(e.system_root, Nm_Panther) >>), TRUE),
     CategoryDef("windows_old", Standard,
                 dedup_paths(<< format_under(e.system_drive, Nm_WindowsOld) >>), TRUE) >>

\* format!("{}\\", drive)
system_drive_mount(e) == e.system_drive \o <<BS>>

\* The environments the model starts in: SystemDrive C:, SystemRoot C:\w,
\* USERPROFILE C:\u, disks C:\ and D:\, and
\*   1: no LOCALAPPDATA, TEMP the system Temp itself
\*   2: LOCALAPPDATA C:\u\l, TEMP C:\u\l\tmp\ (as GetTempPath returns it)
\*   3: LOCALAPPDATA C:\u\l, TEMP C:\u\l\tmp
\*   4: no LOCALAPPDATA, TEMP C:\w\tmp\d, nested in the system Temp
SysRoot == format_under(Str_C, Nm_Windows)

UserProfile == format_under(Str_C, <<"u">>)

LocalAppData == join(UserProfile, <<"l">>)

EnvOf(local, temp) ==
  [system_drive |-> Str_C, system_root |-> SysRoot, user_profile |-> Some(UserProfile),
   local_app_data |-> local, temp_dir |-> temp,
   disks |-> << Str_C \o <<BS>>, <<"D", ":", BS>> >>]

EnvConfigs ==
  { EnvOf(None, join(SysRoot, Nm_Temp)),
    EnvOf(Some(LocalAppData), join(LocalAppData, Nm_Temp) \o <<BS>>),
    EnvOf(Some(LocalAppData), join(LocalAppData, Nm_Temp)),
    EnvOf(None, join(join(SysRoot, Nm_Temp), <<"d">>)) }

(***************************************************************************)
(* The clean engine.  A handler threads an accumulator                     *)
(*   [fs, deleted_bytes, deleted_count, failed, log]                       *)
(* where log records every removal the handler asked the system for.       *)
(***************************************************************************)
MsgOutsideCleanup == "Path is outside cleanup scope."

MsgIsDirectory == "Path is a directory."

MsgOutsideScan == "Path is outside scan scope."

MsgDriveRoot == "Refusing to delete drive root."

MsgRecycle == "SHEmptyRecycleBinW failed"

Str_RecycleBin == <<"$", "R", "e", "c", "y", "c", "l", "e", ".", "B", "i", "n">>

CleanupError(path, message) == [path |-> path, message |-> message]

Attempt(op, path, ok) == [op |-> op, path |-> path, node |-> Resolve(path), ok |-> ok]

StartAcc(f) ==
  [fs |-> f, deleted_bytes |-> 0, deleted_count |-> 0, failed |-> << >>, log |-> << >>]

Fail(acc, path, message) ==
  [acc EXCEPT !.failed = Append(@, CleanupError(path, message))]

\* a mutant of Removed that counts the removal before it looks at the result
Removed_counted(acc, op, path, r, bytes, count) ==
  IF r.ok
    THEN [acc EXCEPT !.fs = r.fs,
                     !.deleted_bytes = @ + bytes,
                     !.deleted_count = @ + count,
                     !.log = Append(@, Attempt(op, path, TRUE))]
    ELSE [acc EXCEPT !.fs = r.fs,
                     !.deleted_bytes = @ + bytes,
                     !.deleted_count = @ + count,
                     !.failed = Append(@, CleanupError(path, r.err)),
                     !.log = Append(@, Attempt(op, path, FALSE))]

\* what a removal that returned r leaves in the accumulator
Removed(acc, op, path, r, bytes, count) ==
  IF r.ok
    THEN [acc EXCEPT !.fs = r.fs,
                     !.deleted_bytes = @ + bytes,
                     !.deleted_count = @ + count,
                     !.log = Append(@, Attempt(op, path, TRUE))]
    ELSE [acc EXCEPT !.fs = r.fs,
                     !.failed = Append(@, CleanupError(path, r.err)),
                     !.log = Append(@, Attempt(op, path, FALSE))]

\* is_within_roots: textual containment in some root of the category
is_within_roots(def, path, f) ==
  LET target == normalize_path(path) IN
  \E i \in 1..Len(def.roots) :
    LET root == def.roots[i]
        root_norm == normalize_path(root)
        prefix == IF ends_with(root_norm, BS) THEN root_norm ELSE root_norm \o <<BS>>
    IN  IF IsFile(f, root)
          THEN target = root_norm
          ELSE target = root_norm \/ starts_with(target, prefix)

\* is_within_root: textual containment in the volume root
is_within_root(root, path, f) ==
  LET root_norm == normalize_path(root)
      target == normalize_path(path)
      prefix == IF ends_with(root_norm, BS) THEN root_norm ELSE root_norm \o <<BS>>
  IN  IF IsFile(f, root)
        THEN target = root_norm
        ELSE target = trim_end_matches(prefix, BS) \/ starts_with(target, prefix)

normalize_exclusions(exclusions) ==
  {normalize_path_str(exclusions[i]) : i \in 1..Len(exclusions)}

\* the part of delete_file after the exclusion test
delete_file_checked(path, cutoff, lk, acc, meta) ==
  IF ~meta.ok THEN Fail(acc, path, meta.err)
  ELSE IF ~matches_cutoff(meta, cutoff) THEN acc
  ELSE TheOne({Removed(acc, "remove_file", path, r, meta.len, 1) :
               r \in {RemoveFile(acc.fs, lk, path)}})

delete_file(path, cutoff, excluded, lk, acc) ==
  IF normalize_path(path) \in excluded THEN acc
  ELSE TheOne({delete_file_checked(path, cutoff, lk, acc, meta) :
               meta \in {Metadata(acc.fs, path)}})

\* Path::components().count() of an absolute path: the prefix, the root
\* directory and every component that is neither empty nor "."
RECURSIVE components_from(_, _, _)
components_from(s, i, cur) ==
  LET one == IF cur = << >> \/ cur = <<".">> THEN 0 ELSE 1 IN
  IF i > Len(s) THEN one
  ELSE IF s[i] \in Seps THEN one + components_from(s, i + 1, << >>)
  ELSE TheOne({components_from(s, i + 1, c) : c \in {Append(cur, s[i])}})

components_count(s) ==
  IF Len(s) >= 3 /\ s[2] = ":" /\ s[3] \in Seps
    THEN 2 + components_from(s, 4, << >>)
    ELSE components_from(s, 1, << >>)

\* the files of one walked root, in walk order
RECURSIVE walk_delete(_, _, _, _, _, _)
walk_delete(entries, i, cutoff, excluded, lk, acc) ==
  IF i > Len(entries) THEN acc
  ELSE TheOne({walk_delete(entries, i + 1, cutoff, excluded, lk, a) :
               a \in {IF entries[i].is_file
                        THEN delete_file(entries[i].path, cutoff, excluded, lk, acc)
                        ELSE acc}})

WalkedDirs(entries) ==
  LET ds == SelectSeq(entries, LAMBDA en : en.is_dir) IN
  [i \in 1..Len(ds) |-> ds[i].path]

\* one iteration of the loop over def.roots in clean_category: st = [acc, dirs]
clean_root_step(def, root, cutoff, excluded, lk, st) ==
  IF ~Exists(st.acc.fs, root) THEN st
  ELSE IF IsFile(st.acc.fs, root)
    THEN [st EXCEPT !.acc = delete_file(root, cutoff, excluded, lk, st.acc)]
  ELSE TheOne({ [acc  |-> walk_delete(entries, 1, cutoff, excluded, lk, st.acc),
                 dirs |-> IF def.cleanup_dirs
                            THEN st.dirs \o WalkedDirs(entries) \o <<root>>
                            ELSE st.dirs] :
                entries \in {WalkDir(st.acc.fs, root)} })

RECURSIVE clean_roots(_, _, _, _, _, _)
clean_roots(def, i, cutoff, excluded, lk, st) ==
  IF i > Len(def.roots) THEN st
  ELSE TheOne({clean_roots(def, i + 1, cutoff, excluded, lk, n) :
               n \in {clean_root_step(def, def.roots[i], cutoff, excluded, lk, st)}})

\* dirs.sort_by(|a, b| b.components().count().cmp(&a.components().count())):
\* stable, deepest first
RECURSIVE sort_from(_, _)
sort_from(dirs, depths) ==
  IF depths = {} THEN << >>
  ELSE LET d == CHOOSE x \in depths : \A y \in depths : y <= x IN
       SelectSeq(dirs, LAMBDA p : components_count(p) = d)
         \o TheOne({sort_from(dirs, rest) : rest \in {depths \ {d}}})

\* a mutant of sort_dirs that leaves the directories in the order of the walk
sort_dirs_unsorted(dirs) == dirs

sort_dirs(dirs) ==
  TheOne({sort_from(dirs, depths) :
          depths \in {{components_count(dirs[i]) : i \in 1..Len(dirs)}}})

\* for dir in dirs { let _ = fs::remove_dir(&dir); }
RECURSIVE remove_dirs(_, _, _, _)
remove_dirs(dirs, i, lk, acc) ==
  IF i > Len(dirs) THEN acc
  ELSE TheOne({remove_dirs(dirs, i + 1, lk, a) :
               a \in { TheOne({ [acc EXCEPT !.fs = r.fs,
                                            !.log = Append(@, Attempt("remove_dir", dirs[i], r.ok))] :
                                r \in {RemoveDir(acc.fs, lk, dirs[i])} }) }})

\* one iteration of the loop of clean_category_fast_dirs: st = [acc, all_ok]
fast_root_step(root, lk, st) ==
  IF ~Exists(st.acc.fs, root) THEN st
  ELSE IF IsFile(st.acc.fs, root)
    THEN TheOne({ [acc |-> Removed(st.acc, "remove_file", root, r, 0, 0),
                   all_ok |-> st.all_ok /\ r.ok] :
                  r \in {RemoveFile(st.acc.fs, lk, root)} })
    ELSE TheOne({ [acc |-> Removed(st.acc, "remove_dir_all", root, r, 0, 0),
                   all_ok |-> st.all_ok /\ r.ok] :
                  r \in {RemoveDirAll(st.acc.fs, lk, root)} })

RECURSIVE fast_roots(_, _, _, _)
fast_roots(def, i, lk, st) ==
  IF i > Len(def.roots) THEN st
  ELSE TheOne({fast_roots(def, i + 1, lk, n) :
               n \in {fast_root_step(def.roots[i], lk, st)}})

\* a mutant of fast_totals that reports the caller's numbers after a failure too
fast_totals_always(st, stats) ==
  IF stats.some
    THEN [st.acc EXCEPT !.deleted_bytes = stats.v.size_bytes,
                        !.deleted_count = stats.v.file_count]
    ELSE st.acc

\* the totals clean_category_fast_dirs reports after its loop
fast_totals(st, stats) ==
  IF st.all_ok /\ stats.some
    THEN [st.acc EXCEPT !.deleted_bytes = stats.v.size_bytes,
                        !.deleted_count = stats.v.file_count]
    ELSE st.acc

clean_category_fast_dirs(def, stats, lk, f) ==
  TheOne({fast_totals(st, stats) :
          st \in {fast_roots(def, 1, lk, [acc |-> StartAcc(f), all_ok |-> TRUE])}})

RECURSIVE SumSizes(_)
SumSizes(S) ==
  IF S = {} THEN 0
  ELSE LET n == CHOOSE x \in S : TRUE IN SizeOf(n) + SumSizes(S \ {n})

\* what the shell keeps in the recycle bins of all drives
BinItems(f) ==
  {n \in f : Len(n) >= 3 /\ n[2] = Nm_RecycleBin}

\* query_recycle_bin_stats(None).unwrap_or(zero)
query_recycle_bin_stats(sh, f) ==
  IF sh = "query_fails"
    THEN [deleted_bytes |-> 0, deleted_count |-> 0]
    ELSE [deleted_bytes |-> SumSizes(BinItems(f) \cap FileNodes),
          deleted_count |-> Cardinality(BinItems(f))]

\* clean_recycle_bin_fast: SHQueryRecycleBinW, then SHEmptyRecycleBinW
clean_recycle_bin_fast(sh, f) ==
  IF sh = "empty_fails"
    THEN [Fail(StartAcc(f), Str_RecycleBin, MsgRecycle) EXCEPT
            !.log = <<[op |-> "empty_bin", path |-> Str_RecycleBin,
                       node |-> NoNode, ok |-> FALSE]>>]
    ELSE [StartAcc(f) EXCEPT
            !.fs = f \ BinItems(f),
            !.deleted_bytes = query_recycle_bin_stats(sh, f).deleted_bytes,
            !.deleted_count = query_recycle_bin_stats(sh, f).deleted_count,
            !.log = <<[op |-> "empty_bin", path |-> Str_RecycleBin,
                       node |-> NoNode, ok |-> TRUE]>>]

should_fast_clear(def) ==
  def.id \in {"system_cache", "browser_cache"} /\ def.cleanup_dirs

\* which strategy clean_category takes
clean_strategy(def, excluded) ==
  IF def.id = "recycle_bin" /\ excluded = {} THEN "recycle"
  ELSE IF excluded = {} /\ should_fast_clear(def) THEN "fast"
  ELSE "walk"

\* the end of clean_category: the emptied directories, deepest first
clean_dirs_pass(def, lk, st) ==
  IF def.cleanup_dirs /\ st.dirs # << >>
    THEN TheOne({remove_dirs(sorted, 1, lk, st.acc) : sorted \in {sort_dirs(st.dirs)}})
    ELSE st.acc

clean_category(def, excluded, stats, lk, sh, t, f) ==
  IF clean_strategy(def, excluded) = "recycle" THEN clean_recycle_bin_fast(sh, f)
  ELSE IF clean_strategy(def, excluded) = "fast"
    THEN clean_category_fast_dirs(def, stats, lk, f)
  ELSE TheOne({clean_dirs_pass(def, lk, st) :
               st \in {clean_roots(def, 1, cutoff_time(def.kind, t), excluded, lk,
                                   [acc |-> StartAcc(f), dirs |-> << >>])}})

\* the part of an iteration of clean_included_paths after the scope test
included_checked(path_str, cutoff, lk, acc, meta) ==
  IF ~meta.ok THEN Fail(acc, path_str, meta.err)
  ELSE IF meta.is_dir THEN Fail(acc, path_str, MsgIsDirectory)
  ELSE IF ~matches_cutoff(meta, cutoff) THEN acc
  ELSE TheOne({Removed(acc, "remove_file", path_str, r, meta.len, 1) :
               r \in {RemoveFile(acc.fs, lk, path_str)}})

\* a mutant of included_step that processes every entry, seen or not
included_step_noseen(def, path_str, cutoff, lk, st) ==
  IF ~is_within_roots(def, path_str, st.acc.fs)
    THEN [st EXCEPT !.acc = Fail(st.acc, path_str, MsgOutsideCleanup)]
    ELSE [st EXCEPT !.acc = TheOne({included_checked(path_str, cutoff, lk, st.acc, meta) :
                                    meta \in {Metadata(st.acc.fs, path_str)}})]

\* a mutant of included_step that removes whatever lies in scope, directories too
included_step_dirs(def, path_str, cutoff, lk, st) ==
  IF normalize_path_str(path_str) \in st.seen THEN st
  ELSE IF ~is_within_roots(def, path_str, st.acc.fs)
    THEN [acc |-> Fail(st.acc, path_str, MsgOutsideCleanup),
          seen |-> st.seen \cup {normalize_path_str(path_str)}]
  ELSE IF IsDir(st.acc.fs, path_str)
    THEN [acc |-> TheOne({Removed(st.acc, "remove_dir_all", path_str, r, 0, 0) :
                          r \in {RemoveDirAll(st.acc.fs, lk, path_str)}}),
          seen |-> st.seen \cup {normalize_path_str(path_str)}]
  ELSE [acc |-> TheOne({included_checked(path_str, cutoff, lk, st.acc, meta) :
                        meta \in {Metadata(st.acc.fs, path_str)}}),
        seen |-> st.seen \cup {normalize_path_str(path_str)}]

\* one iteration of the loop of clean_included_paths: st = [acc, seen]
included_step(def, path_str, cutoff, lk, st) ==
  IF normalize_path_str(path_str) \in st.seen THEN st
  ELSE IF ~is_within_roots(def, path_str, st.acc.fs)
    THEN [acc |-> Fail(st.acc, path_str, MsgOutsideCleanup),
          seen |-> st.seen \cup {normalize_path_str(path_str)}]
  ELSE [acc |-> TheOne({included_checked(path_str, cutoff, lk, st.acc, meta) :
                        meta \in {Metadata(st.acc.fs, path_str)}}),
        seen |-> st.seen \cup {normalize_path_str(path_str)}]

RECURSIVE included_from(_, _, _, _, _, _)
included_from(def, included, i, cutoff, lk, st) ==
  IF i > Len(included) THEN st.acc
  ELSE TheOne({included_from(def, included, i + 1, cutoff, lk, n) :
               n \in {included_step(def, included[i], cutoff, lk, st)}})

clean_included_paths(def, included, lk, t, f) ==
  included_from(def, included, 1, cutoff_time(def.kind, t), lk,
                [acc |-> StartAcc(f), seen |-> {}])

\* HashMap::get
MapGet(m, k) == IF k \in DOMAIN m THEN Some(m[k]) ELSE None

\* included_paths.get(def.id).cloned().unwrap_or_default()
IncludedFor(req, id) ==
  IF id \in DOMAIN req.included_paths THEN req.included_paths[id] ELSE << >>

\* excluded_paths.get(def.id).map(normalize_exclusions).unwrap_or_default()
ExcludedFor(req, id) ==
  IF id \in DOMAIN req.excluded_paths
    THEN normalize_exclusions(req.excluded_paths[id]) ELSE {}

\* a mutant of category_mode that lets the ids decide before the included list
category_mode_ids_first(def, req) ==
  IF def.id \in req.ids THEN clean_strategy(def, ExcludedFor(req, def.id))
  ELSE IF IncludedFor(req, def.id) # << >> THEN "included"
  ELSE "skipped"

\* the branch the loop of clean_categories_sync takes for one category
category_mode(def, req) ==
  IF IncludedFor(req, def.id) # << >> THEN "included"
  ELSE IF def.id \notin req.ids THEN "skipped"
  ELSE clean_strategy(def, ExcludedFor(req, def.id))

\* the body of the loop of clean_categories_sync on the filesystem f
clean_one(def, req, lk, sh, t, f) ==
  IF category_mode(def, req) = "included"
    THEN clean_included_paths(def, IncludedFor(req, def.id), lk, t, f)
  ELSE IF category_mode(def, req) = "skipped" THEN StartAcc(f)
  ELSE TheOne({clean_category(def, excluded, MapGet(req.category_stats, def.id), lk, sh, t, f) :
               excluded \in {ExcludedFor(req, def.id)}})

\* what one category adds to the totals: tot = [fs, deleted_bytes,
\* deleted_count, failed, trace], trace keeping, per category, the branch
\* taken and what it did
category_step(def, req, tot, result) ==
  [fs |-> result.fs,
   deleted_bytes |-> tot.deleted_bytes + result.deleted_bytes,
   deleted_count |-> tot.deleted_count + result.deleted_count,
   failed |-> tot.failed \o result.failed,
   trace |-> Append(tot.trace,
                    [id |-> def.id, mode |-> category_mode(def, req),
                     roots |-> def.roots, kind |-> def.kind,
                     pre |-> tot.fs, post |-> result.fs,
                     deleted_bytes |-> result.deleted_bytes,
                     deleted_count |-> result.deleted_count,
                     failed |-> result.failed, log |-> result.log])]

RECURSIVE categories_from(_, _, _, _, _, _, _)
categories_from(categories, i, req, lk, sh, t, tot) ==
  IF i > Len(categories) THEN tot
  ELSE TheOne({categories_from(categories, i + 1, req, lk, sh, t, n) :
               n \in { category_step(categories[i], req, tot, result) :
                       result \in {clean_one(categories[i], req, lk, sh, t, tot.fs)} }})

clean_categories_sync(req, e, lk, sh, t, f) ==
  TheOne({ categories_from(categories, 1, req, lk, sh, t,
                           [fs |-> f, deleted_bytes |-> 0, deleted_count |-> 0,
                            failed |-> << >>, trace |-> << >>]) :
           categories \in {build_categories(e)} })

\* dir_metrics: size and number of the files the walk of path yields
dir_metrics(f, path) ==
  TheOne({ [size |-> SumSizes(files), count |-> Cardinality(files)] :
           files \in {{n \in f \cap FileNodes : IsUnder(Resolve(path), n)}} })

\* the part of an iteration of clean_large_items_sync after the two guards
large_checked(path_str, lk, acc, meta) ==
  IF ~meta.ok THEN Fail(acc, path_str, meta.err)
  ELSE IF meta.is_dir
    THEN TheOne({ TheOne({Removed(acc, "remove_dir_all", path_str, r, m.size, m.count) :
                          r \in {RemoveDirAll(acc.fs, lk, path_str)}}) :
                  m \in {dir_metrics(acc.fs, path_str)} })
    ELSE TheOne({Removed(acc, "remove_file", path_str, r, meta.len, 1) :
                 r \in {RemoveFile(acc.fs, lk, path_str)}})

\* one iteration of the loop of clean_large_items_sync: st = [acc, seen]
large_step(path_str, root, lk, st) ==
  IF normalize_path_str(path_str) \in st.seen THEN st
  ELSE IF ~is_within_root(root, path_str, st.acc.fs)
    THEN [acc |-> Fail(st.acc, path_str, MsgOutsideScan),
          seen |-> st.seen \cup {normalize_path_str(path_str)}]
  ELSE IF path_eq_ignore_case(path_str, root)
    THEN [acc |-> Fail(st.acc, path_str, MsgDriveRoot),
          seen |-> st.seen \cup {normalize_path_str(path_str)}]
  ELSE [acc |-> TheOne({large_checked(path_str, lk, st.acc, meta) :
                        meta \in {Metadata(st.acc.fs, path_str)}}),
        seen |-> st.seen \cup {normalize_path_str(path_str)}]

RECURSIVE large_from(_, _, _, _, _)
large_from(paths, i, root, lk, st) ==
  IF i > Len(paths) THEN st.acc
  ELSE TheOne({large_from(paths, i + 1, root, lk, n) :
               n \in {large_step(paths[i], root, lk, st)}})

clean_large_items_sync(paths, e, lk, f) ==
  large_from(paths, 1, system_drive_mount(e), lk, [acc |-> StartAcc(f), seen |-> {}])

(***************************************************************************)
(* The scan engine                                                         *)
(***************************************************************************)
ZeroScan == [size_bytes |-> 0, file_count |-> 0]

\* if matches_cutoff(..) { size_bytes += metadata.len(); *file_count += 1; }
scan_count(st, meta, cutoff) ==
  IF meta.ok /\ matches_cutoff(meta, cutoff)
    THEN [size_bytes |-> st.size_bytes + meta.len, file_count |-> st.file_count + 1]
    ELSE st

\* the walk of scan_root: st = [size_bytes, file_count]
RECURSIVE scan_entries(_, _, _, _)
scan_entries(entries, i, cutoff, st) ==
  IF i > Len(entries) THEN st
  ELSE TheOne({scan_entries(entries, i + 1, cutoff, n) :
               n \in {IF entries[i].is_file
                        THEN scan_count(st, EntryMetadata(entries[i].node), cutoff)
                        ELSE st}})

\* scan_root, adding to the running totals st
scan_root(root, cutoff, f, st) ==
  IF ~Exists(f, root) THEN st
  ELSE IF IsFile(f, root) THEN scan_count(st, Metadata(f, root), cutoff)
  ELSE TheOne({scan_entries(entries, 1, cutoff, st) : entries \in {WalkDir(f, root)}})

RECURSIVE scan_roots(_, _, _, _, _)
scan_roots(roots, i, cutoff, f, st) ==
  IF i > Len(roots) THEN st
  ELSE TheOne({scan_roots(roots, i + 1, cutoff, f, n) :
               n \in {scan_root(roots[i], cutoff, f, st)}})

scan_category(def, t, f) ==
  scan_roots(def.roots, 1, cutoff_time(def.kind, t), f, ZeroScan)

\* one record per category, in catalog order; roots and kind stand for the
\* title and description, which identify the catalog entry
scan_cleanup_items_sync(e, t, f) ==
  TheOne({ [i \in 1..Len(categories) |->
              TheOne({ [id |-> categories[i].id, roots |-> categories[i].roots,
                        kind |-> categories[i].kind,
                        size_bytes |-> scan.size_bytes, file_count |-> scan.file_count] :
                       scan \in {scan_category(categories[i], t, f)} })] :
           categories \in {build_categories(e)} })

MillisPerSec == 1000

to_item(path, meta) ==
  [path |-> path, size_bytes |-> meta.len,
   modified_ms |-> IF meta.modified = NoTime \/ meta.modified < UNIX_EPOCH
                     THEN None
                     ELSE Some((meta.modified - UNIX_EPOCH) * MillisPerSec)]

\* if matches_cutoff(..) { items.push(to_item(..)); }
list_push(st, path, meta, cutoff) ==
  IF meta.ok /\ matches_cutoff(meta, cutoff)
    THEN [st EXCEPT !.items = Append(@, to_item(path, meta))]
    ELSE st

\* the inner loop of list_category_items_for: st = [items, has_more]
RECURSIVE list_entries(_, _, _, _, _)
list_entries(entries, i, cutoff, limit, st) ==
  IF i > Len(entries) THEN st
  ELSE IF Len(st.items) >= limit THEN [st EXCEPT !.has_more = TRUE]
  ELSE TheOne({list_entries(entries, i + 1, cutoff, limit, n) :
               n \in {IF entries[i].is_file
                        THEN list_push(st, entries[i].path,
                                       EntryMetadata(entries[i].node), cutoff)
                        ELSE st}})

\* the outer loop of list_category_items_for
RECURSIVE list_roots(_, _, _, _, _, _)
list_roots(roots, i, cutoff, limit, f, st) ==
  IF i > Len(roots) THEN st
  ELSE IF Len(st.items) >= limit THEN [st EXCEPT !.has_more = TRUE]
  ELSE TheOne({list_roots(roots, i + 1, cutoff, limit, f, n) :
               n \in {IF ~Exists(f, roots[i]) THEN st
                      ELSE IF IsFile(f, roots[i])
                        THEN list_push(st, roots[i], Metadata(f, roots[i]), cutoff)
                      ELSE TheOne({list_entries(entries, 1, cutoff, limit, st) :
                                   entries \in {WalkDir(f, roots[i])}})}})

list_category_items_for(def, limit, t, f) ==
  list_roots(def.roots, 1, cutoff_time(def.kind, t), limit, f,
             [items |-> << >>, has_more |-> FALSE])

MsgUnknownCategory == "Unknown cleanup category."

\* categories.iter().find(|category| category.id == id)
FindCategory(categories, id) ==
  LET found == {i \in 1..Len(categories) : categories[i].id = id} IN
  IF found = {} THEN None
  ELSE Some(categories[CHOOSE i \in found : \A j \in found : i <= j])

list_category_items_sync(id, limit, e, t, f) ==
  TheOne({ IF def.some
             THEN [ok |-> TRUE, roots |-> def.v.roots, kind |-> def.v.kind,
                   value |-> list_category_items_for(def.v, limit, t, f)]
             ELSE [ok |-> FALSE, err |-> MsgUnknownCategory] :
           def \in {FindCategory(build_categories(e), id)} })

DefaultListLimit == 200

MaxListLimit == 2000

\* the command: limit.unwrap_or(200).min(2000)
list_category_items(id, limit, e, t, f) ==
  LET given == IF limit.some THEN limit.v ELSE DefaultListLimit IN
  list_category_items_sync(id, IF given < MaxListLimit THEN given ELSE MaxListLimit, e, t, f)

(***************************************************************************)
(* The large-item scanner                                                  *)
(***************************************************************************)
\* let keywords = ["log", "cache", "temp", "tmp"]
Keywords ==
  << <<"l", "o", "g">>, <<"c", "a", "c", "h", "e">>, <<"t", "e", "m", "p">>,
     <<"t", "m", "p">> >>

\* str::contains
contains(text, pat) ==
  \E i \in 1..(Len(text) - Len(pat) + 1) : SubSeq(text, i, i + Len(pat) - 1) = pat

contains_keyword(text, keywords) ==
  LET lowered == [i \in 1..Len(text) |-> to_lowercase(text[i])] IN
  \E k \in 1..Len(keywords) : contains(lowered, keywords[k])

\* the position of the last separator of a path string
LastSep(s) == CHOOSE i \in 1..Len(s) : s[i] \in Seps /\ \A j \in (i + 1)..Len(s) : s[j] \notin Seps

\* the path string is a volume root "X:\"
IsVolumeRoot(s) == Len(s) = 3 /\ s[2] = ":" /\ s[3] \in Seps

\* Path::file_name of a walked path
file_name(s) ==
  IF IsVolumeRoot(s) THEN None ELSE Some(SubSeq(s, LastSep(s) + 1, Len(s)))

\* Path::parent of a walked path
parent(s) ==
  IF IsVolumeRoot(s) THEN None
  ELSE IF LastSep(s) = 3 THEN Some(SubSeq(s, 1, 3))
  ELSE Some(SubSeq(s, 1, LastSep(s) - 1))

\* a mutant of find_suspicious_dir that returns the outermost keyword directory
RECURSIVE find_suspicious_dir_outermost(_, _)
find_suspicious_dir_outermost(path, keywords) ==
  IF ~path.some THEN None
  ELSE LET up == find_suspicious_dir_outermost(parent(path.v), keywords)
           name == file_name(path.v)
       IN  IF up.some THEN up
           ELSE IF name.some /\ contains_keyword(name.v, keywords) THEN Some(path.v)
           ELSE None

RECURSIVE find_suspicious_dir(_, _)
find_suspicious_dir(path, keywords) ==
  IF ~path.some THEN None
  ELSE LET name == file_name(path.v) IN
       IF name.some /\ contains_keyword(name.v, keywords)
         THEN Some(path.v)
         ELSE find_suspicious_dir(parent(path.v), keywords)

RECURSIVE match_category_id(_, _, _, _, _, _)
match_category_id(path, meta, categories, i, t, f) ==
  IF i > Len(categories) THEN None
  ELSE IF is_within_roots(categories[i], path, f)
          /\ matches_cutoff(meta, cutoff_time(categories[i].kind, t))
    THEN Some(categories[i].id)
    ELSE match_category_id(path, meta, categories, i + 1, t, f)

LargeItem(path, name, size, is_dir, suspicious, category_id) ==
  [path |-> path, name |-> name, size_bytes |-> size, is_dir |-> is_dir,
   suspicious |-> suspicious, category_id |-> category_id]

\* suspicious_dirs.entry(key).or_insert((suspicious_dir, 0)).1 += size
credit(dirs, key, path, size) ==
  IF key \in DOMAIN dirs
    THEN [dirs EXCEPT ![key] = [path |-> @.path, size |-> @.size + size]]
    ELSE (key :> [path |-> path, size |-> size]) @@ dirs

\* the body of the walk loop of scan_large_items_sync for one file:
\* st = [large_files, suspicious_dirs]
large_file_step(path, meta, min_size_bytes, categories, t, f, st) ==
  LET name == file_name(path).v
      pushed ==
        IF meta.len >= min_size_bytes
          THEN [st EXCEPT !.large_files =
                  Append(@, LargeItem(path, name, meta.len, FALSE,
                                      contains_keyword(name, Keywords)
                                        \/ contains_keyword(path, Keywords),
                                      match_category_id(path, meta, categories, 1, t, f)))]
          ELSE st
  IN  TheOne({ IF dir.some
                 THEN [pushed EXCEPT !.suspicious_dirs =
                         credit(@, normalize_path(dir.v), dir.v, meta.len)]
                 ELSE pushed :
               dir \in {find_suspicious_dir(parent(path), Keywords)} })

RECURSIVE large_walk(_, _, _, _, _, _, _)
large_walk(entries, i, min_size_bytes, categories, t, f, st) ==
  IF i > Len(entries) THEN st
  ELSE TheOne({large_walk(entries, i + 1, min_size_bytes, categories, t, f, n) :
               n \in {IF entries[i].is_file
                        THEN large_file_step(entries[i].path, EntryMetadata(entries[i].node),
                                             min_size_bytes, categories, t, f, st)
                        ELSE st}})

\* the second loop: one item for every directory whose total reaches the
\* threshold, in the order the hash map yields its keys
large_dirs(dirs, order, min_size_bytes) ==
  LET kept == SelectSeq(order, LAMBDA k : dirs[k].size >= min_size_bytes) IN
  [j \in 1..Len(kept) |->
     LET path == dirs[kept[j]].path IN
     LargeItem(path, IF file_name(path).some THEN file_name(path).v ELSE path,
               dirs[kept[j]].size, TRUE, TRUE, None)]

\* items.sort_by(|a, b| b.size_bytes.cmp(&a.size_bytes)): stable, largest first
RECURSIVE sort_items_from(_, _)
sort_items_from(items, sizes) ==
  IF sizes = {} THEN << >>
  ELSE LET z == CHOOSE x \in sizes : \A y \in sizes : y <= x IN
       SelectSeq(items, LAMBDA it : it.size_bytes = z)
         \o TheOne({sort_items_from(items, rest) : rest \in {sizes \ {z}}})

sort_items(items) ==
  TheOne({sort_items_from(items, sizes) :
          sizes \in {{items[i].size_bytes : i \in 1..Len(items)}}})

\* items.truncate(limit)
truncate(items, limit) ==
  IF Len(items) > limit THEN SubSeq(items, 1, limit) ELSE items

\* scan_large_items_sync up to the end of the walk
scan_large_walk(min_size_bytes, e, t, f) ==
  TheOne({ large_walk(entries, 1, min_size_bytes, build_categories(e), t, f,
                      [large_files |-> << >>, suspicious_dirs |-> [k \in {} |-> << >>]]) :
           entries \in {WalkDir(f, system_drive_mount(e))} })

\* scan_large_items_sync from the end of the walk on
scan_large_finish(walked, order, limit, min_size_bytes) ==
  TheOne({ truncate(sort_items(items), limit) :
           items \in {walked.large_files
                        \o large_dirs(walked.suspicious_dirs, order, min_size_bytes)} })

DefaultLargeLimit == 200

MaxLargeLimit == 1000

DefaultMinSizeMb == 1024

BytesPerKb == 1024

\* limit.unwrap_or(200).min(1000)
large_limit(limit) ==
  LET given == IF limit.some THEN limit.v ELSE DefaultLargeLimit IN
  IF given < MaxLargeLimit THEN given ELSE MaxLargeLimit

\* min_size_mb.unwrap_or(1024).saturating_mul(1024).saturating_mul(1024)
min_size_bytes_of(min_size_mb) ==
  (IF min_size_mb.some THEN min_size_mb.v ELSE DefaultMinSizeMb) * BytesPerKb * BytesPerKb

\* the orders a HashMap may yield the keys S in
RECURSIVE Orders(_)
Orders(S) ==
  IF S = {} THEN {<< >>}
  ELSE UNION { { <<x>> \o rest : rest \in Orders(S \ {x}) } : x \in S }

(***************************************************************************)
(* Requests                                                                *)
(***************************************************************************)
MaxPaths == 2

MaxLimit == 3

MaxCalls == 1

MaxMinSizeMb == 3

pA      == <<"C", ":", BS, "w", BS, "t", "m", "p", BS, "A">>
pA2     == <<"c", ":", "/", "W", "/", "t", "m", "p", "/", "a">>
pB      == <<"C", ":", BS, "w", BS, "t", "m", "p", BS, "d", BS, "b">>
pWTD    == <<"C", ":", BS, "w", BS, "t", "m", "p", BS, "d">>
pUpK    == <<"C", ":", BS, "w", BS, "t", "m", "p", BS, ".", ".", BS, "k">>
pK      == <<"C", ":", BS, "w", BS, "k">>
pE      == <<"C", ":", BS, "u", BS, "l", BS, "t", "m", "p", BS, "e">>
pF      == <<"C", ":", BS, "w", BS, "s", BS, "n", BS, "f">>
pG      == <<"C", ":", BS, "r", BS, "g">>
pO      == <<"C", ":", BS, "u", BS, "d", BS, "o">>
pO2     == <<"c", ":", BS, "U", BS, "D", "/", "O">>
pP      == <<"C", ":", BS, "u", BS, "d", BS, "p">>
pQ      == <<"C", ":", BS, "u", BS, "d", BS, "q">>
pWT     == <<"C", ":", BS, "w", BS, "t", "m", "p">>
pWT2    == <<"c", ":", "/", "W", "/", "T", "M", "P">>
pRoot   == <<"C", ":", BS>>
pRoot2  == <<"c", ":", "/">>
pRootDot == <<"C", ":", BS, ".">>
pRootSep == <<"C", ":", BS, BS>>
pZ      == <<"D", ":", BS, "z">>

Lists(S, n) == UNION {[1..k -> S] : k \in 0..n}

CategoryIds ==
  {"temp_files", "recycle_bin", "downloads_old", "system_cache", "browser_cache",
   "system_logs", "windows_old"}

UnknownId == "unknown_id"

IncludedStrings(id) ==
  IF id = "temp_files" THEN {pA, pA2, pUpK, pWTD, pK, pB}
  ELSE IF id = "downloads_old" THEN {pO, pO2, pP, pQ}
  ELSE IF id = "system_cache" THEN {pF}
  ELSE IF id = "recycle_bin" THEN {pG}
  ELSE {}

ExcludedStrings(id) ==
  IF id = "temp_files" THEN {pA2, pB, pE}
  ELSE IF id = "downloads_old" THEN {pO2}
  ELSE IF id = "system_cache" THEN {pF}
  ELSE IF id = "recycle_bin" THEN {pG}
  ELSE {}

EmptyMap == [k \in {} |-> << >>]

StatsExact == "system_cache" :> [size_bytes |-> 2056, file_count |-> 2]

StatsStale == "system_cache" :> [size_bytes |-> 5000, file_count |-> 9]

CleanRequest(ids, excluded_paths, included_paths, category_stats) ==
  [ids |-> ids, excluded_paths |-> excluded_paths,
   included_paths |-> included_paths, category_stats |-> category_stats]

\* requests that only select categories
PlainRequests ==
  { CleanRequest(ids, EmptyMap, EmptyMap, st) :
      ids \in (SUBSET {"temp_files", "recycle_bin", "downloads_old", "system_cache"})
                \cup {{UnknownId}},
      st \in {EmptyMap, StatsExact, StatsStale} }

\* requests that list included paths for one category (the empty list too)
IncludedRequests ==
  UNION { { CleanRequest(ids, ex, id :> l, EmptyMap) :
              l \in Lists(IncludedStrings(id), MaxPaths),
              ids \in {{}, {id}, {"system_cache"}},
              ex \in {EmptyMap, id :> <<pA2>>} } :
          id \in {"temp_files", "downloads_old", "system_cache", "recycle_bin"} }

\* requests that list excluded paths for one selected category
ExcludedRequests ==
  UNION { { CleanRequest(ids, id :> l, EmptyMap, st) :
              l \in Lists(ExcludedStrings(id), MaxPaths),
              ids \in {{id}, {id, "temp_files"}},
              st \in {EmptyMap, StatsExact} } :
          id \in {"temp_files", "downloads_old", "system_cache", "recycle_bin"} }

\* requests that name an id the catalog does not define
UnknownRequests ==
  { CleanRequest({"temp_files", UnknownId}, EmptyMap, EmptyMap, EmptyMap),
    CleanRequest({"temp_files"}, UnknownId :> <<pA>>, EmptyMap, EmptyMap),
    CleanRequest({"temp_files"}, EmptyMap, UnknownId :> <<pA>>, EmptyMap),
    CleanRequest({}, EmptyMap, UnknownId :> <<pA>>, EmptyMap) }

Requests ==
  PlainRequests \cup IncludedRequests \cup ExcludedRequests \cup UnknownRequests

LargePathStrings == {pRoot, pRoot2, pRootDot, pRootSep, pZ, pWT, pWT2, pK, pB}

\* the limit a caller passes to listCategoryItems, or none
LimitChoices == {None} \cup {Some(l) : l \in 0..MaxLimit}

\* the threshold in megabytes a caller passes to scanLargeItems, or none
MinSizeChoices == {None} \cup {Some(m) : m \in 0..MaxMinSizeMb}

FaultConfigs ==
  { [locked |-> {}, shell |-> "ok"],
    [locked |-> {nE}, shell |-> "ok"],
    [locked |-> {nB, nF}, shell |-> "ok"],
    [locked |-> {nWTD}, shell |-> "ok"],
    [locked |-> {}, shell |-> "query_fails"],
    [locked |-> {}, shell |-> "empty_fails"] }

(***************************************************************************)
(* The state machine: each command runs to completion in one step and      *)
(* leaves its request, the filesystem before and after, and its answer in  *)
(* call until the answer is delivered.                                     *)
(***************************************************************************)
NoCall == [op |-> "none"]

\* the two requests of the concurrent runs further down; they do not run here
Workers == {1, 2}

NoWorkers == [w \in Workers |-> [pc |-> "none"]]

Init ==
  /\ env \in EnvConfigs
  /\ \E fc \in FaultConfigs : locked = fc.locked /\ shell = fc.shell
  /\ now = NowStart
  /\ fs = NodeSet
  /\ calls = 0
  /\ call = NoCall
  /\ workers = NoWorkers

Idle == call = NoCall /\ calls < MaxCalls

CleanCategories(req) ==
  /\ Idle
  /\ \E tot \in {clean_categories_sync(req, env, locked, shell, now, fs)} :
       /\ fs' = tot.fs
       /\ call' = [op |-> "clean_categories", req |-> req, pre |-> fs, post |-> tot.fs,
                   ok |-> TRUE,
                   result |-> [deleted_bytes |-> tot.deleted_bytes,
                               deleted_count |-> tot.deleted_count,
                               failed |-> tot.failed],
                   trace |-> tot.trace]
  /\ calls' = calls + 1
  /\ UNCHANGED <<env, locked, shell, now, workers>>

CleanLargeItems(paths) ==
  /\ Idle
  /\ \E acc \in {clean_large_items_sync(paths, env, locked, fs)} :
       /\ fs' = acc.fs
       /\ call' = [op |-> "clean_large_items", paths |-> paths, pre |-> fs, post |-> acc.fs,
                   result |-> [deleted_bytes |-> acc.deleted_bytes,
                               deleted_count |-> acc.deleted_count,
                               failed |-> acc.failed],
                   log |-> acc.log]
  /\ calls' = calls + 1
  /\ UNCHANGED <<env, locked, shell, now, workers>>

ScanCleanupItems ==
  /\ Idle
  /\ call' = [op |-> "scan_cleanup_items", pre |-> fs, post |-> fs,
              result |-> scan_cleanup_items_sync(env, now, fs)]
  /\ calls' = calls + 1
  /\ UNCHANGED <<env, locked, shell, now, fs, workers>>

ListCategoryItems(id, limit) ==
  /\ Idle
  /\ call' = [op |-> "list_category_items", id |-> id, limit |-> limit,
              pre |-> fs, post |-> fs,
              result |-> list_category_items(id, limit, env, now, fs)]
  /\ calls' = calls + 1
  /\ UNCHANGED <<env, locked, shell, now, fs, workers>>

ScanLargeItems(limit, min_size_mb) ==
  /\ Idle
  /\ \E walked \in {scan_large_walk(min_size_bytes_of(min_size_mb), env, now, fs)} :
       \E order \in Orders(DOMAIN walked.suspicious_dirs) :
         call' = [op |-> "scan_large_items", limit |-> limit,
                  min_size_mb |-> min_size_mb, pre |-> fs, post |-> fs,
                  result |-> scan_large_finish(walked, order, large_limit(limit),
                                               min_size_bytes_of(min_size_mb))]
  /\ calls' = calls + 1
  /\ UNCHANGED <<env, locked, shell, now, fs, workers>>

Deliver ==
  /\ call # NoCall
  /\ call' = NoCall
  /\ UNCHANGED <<env, locked, shell, now, fs, calls, workers>>

Next ==
  \/ \E req \in Requests : CleanCategories(req)
  \/ \E paths \in Lists(LargePathStrings, MaxPaths) : CleanLargeItems(paths)
  \/ ScanCleanupItems
  \/ \E id \in CategoryIds \cup {UnknownId}, limit \in LimitChoices :
       ListCategoryItems(id, limit)
  \/ \E limit \in LimitChoices, min_size_mb \in MinSizeChoices :
       ScanLargeItems(limit, min_size_mb)
  \/ Deliver

Spec == Init /\ [][Next]_vars

\* The same commands on a machine whose clock stands one day after the Unix
\* epoch, so that now minus the 30 days of downloads_old is not representable.
NowEarly == UNIX_EPOCH + SecsPerDay

InitEarly ==
  /\ env \in EnvConfigs
  /\ \E fc \in FaultConfigs : locked = fc.locked /\ shell = fc.shell
  /\ now = NowEarly
  /\ fs = NodeSet
  /\ calls = 0
  /\ call = NoCall
  /\ workers = NoWorkers

SpecEarly == InitEarly /\ [][Next]_vars

(***************************************************************************)
(* Two cleanCategories requests at once.  Each runs clean_category on its  *)
(* own blocking thread; what the two share is the filesystem.  A step is   *)
(* one system call of one request: opening a root, reading the next entry  *)
(* of its walk, reading a file's metadata, removing a file, removing a     *)
(* directory.  Both requests name the same category and no exclusions.     *)
(***************************************************************************)
RaceCategories == {"temp_files", "downloads_old"}

RaceFaults ==
  { [locked |-> {}, shell |-> "ok"],
    [locked |-> {nB, nF}, shell |-> "ok"] }

\* the environments without LOCALAPPDATA: one temp root, or one inside another
RaceEnvs == {e \in EnvConfigs : ~e.local_app_data.some}

CategoryOf(e, id) == FindCategory(build_categories(e), id).v

\* a request at the top of clean_category's loop over def.roots
StartWorker(id) ==
  [pc |-> "roots", id |-> id, i |-> 1, pending |-> << >>, cur |-> << >>,
   ret |-> "roots", meta |-> None, dirs |-> << >>, sorted |-> << >>,
   acc |-> StartAcc({})]

InitRace ==
  /\ env \in RaceEnvs
  /\ \E fc \in RaceFaults : locked = fc.locked /\ shell = fc.shell
  /\ now = NowStart
  /\ fs = NodeSet
  /\ calls = 0
  /\ call = NoCall
  /\ \E id \in RaceCategories : workers = [w \in Workers |-> StartWorker(id)]

\* what reading the directory of a walked entry yields now, in directory
\* order; nothing when the directory is gone
Children(f, entry) ==
  LET under == SelectSeq(AllNodes, LAMBDA n : /\ n \in f
                                               /\ Len(n) = Len(entry.node) + 1
                                               /\ IsUnder(entry.node, n))
  IN  [k \in 1..Len(under) |-> [path |-> join(entry.path, DisplayName(under[k])),
                                 node |-> under[k],
                                 is_dir |-> under[k] \in DirNodes,
                                 is_file |-> under[k] \in FileNodes]]

\* for root in &def.roots: the tests on the root, or the end of the loop
NextRoot(w) ==
  LET wk  == workers[w]
      def == CategoryOf(env, wk.id)
  IN  /\ wk.pc = "roots"
      /\ workers' = [workers EXCEPT ![w] =
           IF wk.i > Len(def.roots)
             THEN IF def.cleanup_dirs /\ wk.dirs # << >>
                    THEN [wk EXCEPT !.pc = "dirs", !.sorted = sort_dirs(wk.dirs)]
                    ELSE [wk EXCEPT !.pc = "done"]
           ELSE IF ~Exists(fs, def.roots[wk.i]) THEN [wk EXCEPT !.i = @ + 1]
           ELSE IF IsFile(fs, def.roots[wk.i])
             THEN [wk EXCEPT !.pc = "stat", !.cur = def.roots[wk.i],
                             !.ret = "roots", !.i = @ + 1]
           ELSE [wk EXCEPT !.pc = "walk",
                           !.pending = << [path |-> def.roots[wk.i],
                                           node |-> Resolve(def.roots[wk.i]),
                                           is_dir |-> TRUE, is_file |-> FALSE] >>]]
      /\ UNCHANGED <<env, locked, shell, now, fs, calls, call>>

\* for entry in WalkDir::new(root): the next entry, or the end of the walk
WalkStep(w) ==
  LET wk  == workers[w]
      def == CategoryOf(env, wk.id)
  IN  /\ wk.pc = "walk"
      /\ workers' = [workers EXCEPT ![w] =
           IF wk.pending = << >>
             THEN [wk EXCEPT !.pc = "roots", !.i = @ + 1,
                             !.dirs = IF def.cleanup_dirs
                                        THEN Append(@, def.roots[wk.i]) ELSE @]
           ELSE IF Head(wk.pending).is_dir
             THEN [wk EXCEPT !.pending = Children(fs, Head(wk.pending)) \o Tail(@),
                             !.dirs = IF def.cleanup_dirs
                                        THEN Append(@, Head(wk.pending).path) ELSE @]
           ELSE [wk EXCEPT !.pc = "stat", !.cur = Head(wk.pending).path,
                           !.ret = "walk", !.pending = Tail(@)]]
      /\ UNCHANGED <<env, locked, shell, now, fs, calls, call>>

\* delete_file up to the time filter: path.metadata() and matches_cutoff
Stat(w) ==
  LET wk  == workers[w]
      def == CategoryOf(env, wk.id)
  IN  /\ wk.pc = "stat"
      /\ \E meta \in {Metadata(fs, wk.cur)} :
           workers' = [workers EXCEPT ![w] =
             IF ~meta.ok
               THEN [wk EXCEPT !.pc = wk.ret, !.acc = Fail(@, wk.cur, meta.err)]
             ELSE IF ~matches_cutoff(meta, cutoff_time(def.kind, now))
               THEN [wk EXCEPT !.pc = wk.ret]
             ELSE [wk EXCEPT !.pc = "remove", !.meta = Some(meta)]]
      /\ UNCHANGED <<env, locked, shell, now, fs, calls, call>>

\* delete_file from fs::remove_file on
Remove(w) ==
  LET wk == workers[w] IN
  /\ wk.pc = "remove"
  /\ \E a \in { Removed([wk.acc EXCEPT !.fs = fs], "remove_file", wk.cur, r,
                          wk.meta.v.len, 1) :
                  r \in {RemoveFile(fs, locked, wk.cur)} } :
       /\ fs' = a.fs
       /\ workers' = [workers EXCEPT ![w] =
            [wk EXCEPT !.pc = wk.ret, !.meta = None, !.acc = [a EXCEPT !.fs = {}]]]
  /\ UNCHANGED <<env, locked, shell, now, calls, call>>

\* for dir in dirs { let _ = fs::remove_dir(&dir); }: the next directory
DirStep(w) ==
  LET wk == workers[w] IN
  /\ wk.pc = "dirs"
  /\ IF wk.sorted = << >>
       THEN /\ workers' = [workers EXCEPT ![w] = [wk EXCEPT !.pc = "done"]]
            /\ fs' = fs
       ELSE \E r \in {RemoveDir(fs, locked, Head(wk.sorted))} :
              /\ fs' = r.fs
              /\ workers' = [workers EXCEPT ![w] =
                   [wk EXCEPT !.sorted = Tail(@),
                              !.acc = [@ EXCEPT !.log = Append(@, Attempt("remove_dir",
                                                                Head(wk.sorted), r.ok))]]]
  /\ UNCHANGED <<env, locked, shell, now, calls, call>>

NextRace ==
  \E w \in Workers :
    \/ NextRoot(w)
    \/ WalkStep(w)
    \/ Stat(w)
    \/ Remove(w)
    \/ DirStep(w)

SpecRace == InitRace /\ [][NextRace]_vars

(***************************************************************************)
(* Properties.  They read the record of the last command: its request,     *)
(* the filesystem before and after, its answer, and what each category     *)
(* did.                                                                    *)
(***************************************************************************)
\* the location a root or a listed path resolves to lies at or under a root
InsideRoots(roots, n) ==
  \E i \in 1..Len(roots) : Resolve(roots[i]) # NoNode /\ IsUnder(Resolve(roots[i]), n)

Entries(seq) == {seq[i] : i \in 1..Len(seq)}

\* how many entries of the failure list name the path p
FailuresOf(failed, p) == Cardinality({i \in 1..Len(failed) : failed[i].path = p})

\* C1: in a cleanCategories call, whatever a category removed lies at or
\* under one of that category's roots, judged by where the path resolves to;
\* and an included path that resolves outside every root of its category is
\* not removed and is answered with "Path is outside cleanup scope.".
C1_RemovedInsideRoots ==
  call.op = "clean_categories" =>
    \A i \in 1..Len(call.trace) :
      LET c == call.trace[i] IN
      /\ \A n \in c.pre \ c.post : InsideRoots(c.roots, n)
      /\ c.mode = "included" =>
           \A p \in Entries(IncludedFor(call.req, c.id)) :
             ~InsideRoots(c.roots, Resolve(p)) =>
               /\ Resolve(p) \in c.pre => Resolve(p) \in c.post
               /\ CleanupError(p, MsgOutsideCleanup) \in Entries(c.failed)

\* the state C1 fails in: temp_files, handled through its included list, has
\* removed a file that lies outside all of its roots
C1_EscapedRoots ==
  /\ call.op = "clean_categories"
  /\ \E i \in 1..Len(call.trace) :
       /\ call.trace[i].id = "temp_files"
       /\ call.trace[i].mode = "included"
       /\ nK \in call.trace[i].pre \ call.trace[i].post
       /\ ~InsideRoots(call.trace[i].roots, nK)

\* C2: in a cleanPaths call the system volume root is never removed and
\* nothing outside the system volume is removed; a path outside the volume is
\* answered with "Path is outside scan scope.", and a path that denotes the
\* volume root is answered with "Refusing to delete drive root." and no
\* removal is asked for it.
C2_VolumeRootRefused ==
  call.op = "clean_large_items" =>
    LET vol == Resolve(system_drive_mount(env)) IN
    /\ vol \in call.post
    /\ \A n \in call.pre \ call.post : StrictlyUnder(vol, n)
    /\ \A p \in Entries(call.paths) :
         /\ ~IsUnder(vol, Resolve(p)) =>
              CleanupError(p, MsgOutsideScan) \in Entries(call.result.failed)
         /\ Resolve(p) = vol =>
              /\ CleanupError(p, MsgDriveRoot) \in Entries(call.result.failed)
              /\ \A j \in 1..Len(call.log) : call.log[j].path # p

\* the state C2 fails in: a spelling of the volume root was handed to the
\* recursive removal and files of the volume are gone
C2_VolumeEmptied ==
  /\ call.op = "clean_large_items"
  /\ \E j \in 1..Len(call.log) :
       /\ call.log[j].op = "remove_dir_all"
       /\ call.log[j].node = Resolve(system_drive_mount(env))
  /\ call.pre \ call.post # {}

\* last modified strictly before now minus days, and known
OlderThan(n, days) ==
  ModifiedOf(n) # NoTime /\ ModifiedOf(n) < now - days * SecsPerDay

\* C3: for a category with an olderThan(N) filter, a file modified at or
\* after now minus N days, or whose modification time is unavailable, is
\* never removed by cleanCategories (walked or listed in includedPaths),
\* never counted by the scan and never listed by listCategoryItems.
C3_TimeFilter ==
  /\ call.op = "clean_categories" =>
       \A i \in 1..Len(call.trace) :
         call.trace[i].kind.tag = "DownloadsOlderThan" =>
           \A n \in call.trace[i].pre \ call.trace[i].post :
             OlderThan(n, call.trace[i].kind.days)
  /\ call.op = "scan_cleanup_items" =>
       \A i \in 1..Len(call.result) :
         LET c == call.result[i] IN
         c.kind.tag = "DownloadsOlderThan" =>
           LET old == {n \in call.pre \cap FileNodes :
                         InsideRoots(c.roots, n) /\ OlderThan(n, c.kind.days)}
           IN  c.file_count = Cardinality(old) /\ c.size_bytes = SumSizes(old)
  /\ (call.op = "list_category_items" /\ call.result.ok) =>
       (call.result.kind.tag = "DownloadsOlderThan" =>
          \A j \in 1..Len(call.result.value.items) :
            OlderThan(Resolve(call.result.value.items[j].path), call.result.kind.days))

\* downloads_old was cleaned: the file one second older than the cutoff is
\* gone, the file exactly at the cutoff and the file without a modification
\* time are still there
C3_BoundaryKept ==
  /\ call.op = "clean_categories"
  /\ \E i \in 1..Len(call.trace) :
       /\ call.trace[i].id = "downloads_old"
       /\ call.trace[i].kind.tag = "DownloadsOlderThan"
       /\ nO \in call.trace[i].pre \ call.trace[i].post
       /\ {nP, nQ} \subseteq call.trace[i].post
       /\ ModifiedOf(nP) = now - call.trace[i].kind.days * SecsPerDay
       /\ ModifiedOf(nQ) = NoTime

\* the comparison key of a path: one separator, lower case
NormalKey(p) == [i \in 1..Len(p) |-> IF p[i] = "/" THEN BS ELSE to_lowercase(p[i])]

Keys(paths) == {NormalKey(paths[i]) : i \in 1..Len(paths)}

\* the request without the exclusion lists that are empty
WithoutEmptyExclusions(req) ==
  [req EXCEPT !.excluded_paths =
     [id \in {k \in DOMAIN req.excluded_paths : req.excluded_paths[k] # << >>} |->
        req.excluded_paths[id]]]

\* what a caller can observe of a cleanCategories call: the answer and the
\* filesystem it leaves
Outcome(tot) ==
  [deleted_bytes |-> tot.deleted_bytes, deleted_count |-> tot.deleted_count,
   failed |-> tot.failed, fs |-> tot.fs]

\* C4: in a cleanCategories call no file whose normalized path is listed in
\* excludedPaths[id] is removed while category id is cleaned, whatever ids,
\* includedPaths and categoryStats the request holds; and a request with an
\* empty exclusion list for a category has the outcome of the request
\* without that list.
C4_ExcludedNeverDeleted ==
  call.op = "clean_categories" =>
    /\ \A i \in 1..Len(call.trace) :
         LET c == call.trace[i] IN
         c.id \in DOMAIN call.req.excluded_paths =>
           \A j \in 1..Len(c.log) :
             (c.log[j].ok /\ c.log[j].op # "empty_bin") =>
               NormalKey(c.log[j].path) \notin Keys(call.req.excluded_paths[c.id])
    /\ [deleted_bytes |-> call.result.deleted_bytes,
        deleted_count |-> call.result.deleted_count,
        failed |-> call.result.failed, fs |-> call.post] =
         Outcome(clean_categories_sync(WithoutEmptyExclusions(call.req),
                                       env, locked, shell, now, call.pre))

\* the state C4 fails in: a file of temp_files is listed both in
\* includedPaths and, in another spelling, in excludedPaths, and is removed
C4_ExcludedDeleted ==
  /\ call.op = "clean_categories"
  /\ "temp_files" \in DOMAIN call.req.excluded_paths
  /\ NormalKey(pA) \in Keys(call.req.excluded_paths["temp_files"])
  /\ pA \in Entries(IncludedFor(call.req, "temp_files"))
  /\ nA \in call.pre \ call.post

\* the files among the entries a step removed
FilesGone(pre, post) == (pre \ post) \cap FileNodes

\* C5: the counters of a CleanupResult of cleanCategories or cleanPaths count
\* only what the call removed: deleted_count is at most the number of files
\* the call removed and deleted_bytes at most the sum of their sizes, for the
\* call and for each category of it.
C5_CountersReflectRemovals ==
  /\ call.op \in {"clean_categories", "clean_large_items"} =>
       /\ call.result.deleted_count <= Cardinality(FilesGone(call.pre, call.post))
       /\ call.result.deleted_bytes <= SumSizes(FilesGone(call.pre, call.post))
  /\ call.op = "clean_categories" =>
       \A i \in 1..Len(call.trace) :
         LET c == call.trace[i] IN
         /\ c.deleted_count <= Cardinality(FilesGone(c.pre, c.post))
         /\ c.deleted_bytes <= SumSizes(FilesGone(c.pre, c.post))

\* the state C5 fails in: system_cache was cleared wholesale, its two files
\* are gone, and the answer reports more than the two
C5_StaleStatsReported ==
  /\ call.op = "clean_categories"
  /\ \E i \in 1..Len(call.trace) :
       /\ call.trace[i].id = "system_cache"
       /\ call.trace[i].mode = "fast"
       /\ FilesGone(call.trace[i].pre, call.trace[i].post) = {nF, nH}
       /\ call.trace[i].deleted_count > 2
       /\ call.trace[i].deleted_bytes > SizeOf(nF) + SizeOf(nH)

\* the removals a handler asked for that failed, the empty-directory pass aside
FailedAttempts(log) ==
  {log[j].path : j \in {k \in 1..Len(log) : ~log[k].ok /\ log[k].op # "remove_dir"}}

\* C6: every file or root whose removal a cleanCategories or cleanPaths
\* call attempted without success is named by exactly one entry of the
\* failure list, also when roots of a category nest or overlap; the removal
\* of emptied directories is exempt.
C6_FailuresListedOnce ==
  /\ call.op = "clean_categories" =>
       \A i \in 1..Len(call.trace) :
         \A p \in FailedAttempts(call.trace[i].log) :
           FailuresOf(call.result.failed, p) = 1
  /\ call.op = "clean_large_items" =>
       \A p \in FailedAttempts(call.log) : FailuresOf(call.result.failed, p) = 1

\* the state C6 fails in: a locked file under two overlapping roots of
\* temp_files is named twice in the failure list
C6_FailureListedTwice ==
  /\ call.op = "clean_categories"
  /\ nE \in locked
  /\ \E i \in 1..Len(call.trace) :
       /\ call.trace[i].id = "temp_files"
       /\ call.trace[i].mode = "walk"
       /\ FailuresOf(call.trace[i].failed, pE) = 2

\* the locations the entries of a path list resolve to
ListedNodes(paths) == {Resolve(paths[i]) : i \in 1..Len(paths)}

\* C7: a category whose includedPaths list is not empty is handled through
\* that list only, in ids or not: it asks for the removal of listed files
\* and of nothing else, removes no directory, and nothing but listed files
\* is gone afterwards; a category with no included paths that is not in ids
\* is left untouched and adds nothing to the answer.
C7_IncludedOverrides ==
  call.op = "clean_categories" =>
    \A i \in 1..Len(call.trace) :
      LET c == call.trace[i]
          listed == IncludedFor(call.req, c.id)
      IN  /\ listed # << >> =>
               /\ \A j \in 1..Len(c.log) :
                    /\ c.log[j].op = "remove_file"
                    /\ c.log[j].path \in Entries(listed)
               /\ c.pre \ c.post \subseteq ListedNodes(listed) \cap FileNodes
          /\ (listed = << >> /\ c.id \notin call.req.ids) =>
               /\ c.post = c.pre
               /\ c.log = << >> /\ c.failed = << >>
               /\ c.deleted_bytes = 0 /\ c.deleted_count = 0

\* a category that is in ids and has an included list: the listed file is
\* gone and the other files and the directories of its roots are still there
C7_OnlyListedGone ==
  /\ call.op = "clean_categories"
  /\ \E id \in {"temp_files", "system_cache", "recycle_bin"} :
       /\ id \in call.req.ids
       /\ IncludedFor(call.req, id) # << >>
       /\ \E i \in 1..Len(call.trace) :
            LET c == call.trace[i] IN
            /\ c.id = id
            /\ c.pre \ c.post # {}
            /\ \E n \in c.post : InsideRoots(c.roots, n) /\ ~ \E r \in Entries(c.roots) : Resolve(r) = n

\* C8: through includedPaths no directory is removed: a listed path inside
\* the category's roots that is a directory is answered with "Path is a
\* directory.", no removal is asked for it and whatever is gone was itself
\* listed; a listed file that fails the category's time filter stays, with
\* no failure entry.
C8_IncludedDirectoryRefused ==
  call.op = "clean_categories" =>
    \A i \in 1..Len(call.trace) :
      LET c == call.trace[i]
          listed == IncludedFor(call.req, c.id)
      IN  listed # << >> =>
            /\ (c.pre \ c.post) \cap DirNodes = {}
            /\ \A p \in Entries(listed) :
                 /\ (is_within_roots(c, p, c.pre) /\ IsDir(c.pre, p)) =>
                      /\ CleanupError(p, MsgIsDirectory) \in Entries(c.failed)
                      /\ \A j \in 1..Len(c.log) : c.log[j].path # p
                      /\ \A n \in c.pre \ c.post :
                           IsUnder(Resolve(p), n) => n \in ListedNodes(listed) \cap FileNodes
                 /\ (/\ c.kind.tag = "DownloadsOlderThan"
                     /\ is_within_roots(c, p, c.pre) /\ IsFile(c.pre, p)
                     /\ ~OlderThan(Resolve(p), c.kind.days)) =>
                      /\ Resolve(p) \in c.post
                      /\ FailuresOf(c.failed, p) = 0

\* temp_files was given a directory of its root: it is refused and the
\* directory and the file in it are still there
C8_DirectoryKept ==
  /\ call.op = "clean_categories"
  /\ pWTD \in Entries(IncludedFor(call.req, "temp_files"))
  /\ \E i \in 1..Len(call.trace) :
       /\ call.trace[i].id = "temp_files"
       /\ CleanupError(pWTD, MsgIsDirectory) \in Entries(call.trace[i].failed)
       /\ {nWTD, nB} \subseteq call.trace[i].post

\* a path list without the later entries of a comparison key already seen
RECURSIVE KeepFirst(_)
KeepFirst(paths) ==
  IF paths = << >> THEN << >>
  ELSE LET front == SubSeq(paths, 1, Len(paths) - 1)
           last  == paths[Len(paths)]
       IN  IF NormalKey(last) \in Keys(front)
             THEN KeepFirst(front)
             ELSE Append(KeepFirst(front), last)

\* how many entries of a log or failure list have the comparison key k
WithKey(seq, k) == Cardinality({i \in 1..Len(seq) : NormalKey(seq[i].path) = k})

\* C9: cleaning with an included list L, and cleanPaths with a list L,
\* leaves the filesystem and gives the answer of the same call with
\* KeepFirst(L); for every comparison key at most one removal is asked for
\* and at most one failure is reported, so a file listed twice counts once.
C9_DuplicatesSuppressed ==
  /\ call.op = "clean_categories" =>
       \A i \in 1..Len(call.trace) :
         LET c == call.trace[i]
             listed == IncludedFor(call.req, c.id)
         IN  listed # << >> =>
               LET once == clean_included_paths(FindCategory(build_categories(env), c.id).v,
                                                KeepFirst(listed), locked, now, c.pre)
               IN  /\ c.post = once.fs
                   /\ c.deleted_bytes = once.deleted_bytes
                   /\ c.deleted_count = once.deleted_count
                   /\ c.failed = once.failed
                   /\ \A k \in Keys(listed) :
                        /\ WithKey(c.log, k) <= 1
                        /\ WithKey(c.failed, k) <= 1
                   /\ c.deleted_count <= Cardinality(Keys(listed))
  /\ call.op = "clean_large_items" =>
       LET once == clean_large_items_sync(KeepFirst(call.paths), env, locked, call.pre)
       IN  /\ call.post = once.fs
           /\ call.result = [deleted_bytes |-> once.deleted_bytes,
                             deleted_count |-> once.deleted_count,
                             failed |-> once.failed]
           /\ \A k \in Keys(call.paths) :
                WithKey(call.log, k) <= 1 /\ WithKey(call.result.failed, k) <= 1

\* temp_files was given the same file in two spellings: the file is gone,
\* counted once, with no failure
C9_ListedTwiceRemovedOnce ==
  /\ call.op = "clean_categories"
  /\ IncludedFor(call.req, "temp_files") = <<pA, pA2>>
  /\ nA \in call.pre \ call.post
  /\ call.result.deleted_count = 1
  /\ call.result.failed = << >>

\* the regular files at or under the roots of a category
FilesUnderRoots(f, roots) == {n \in f \cap FileNodes : InsideRoots(roots, n)}

\* C10: for a category without time filter the scan returns the sum of the
\* sizes of the regular files under the category's roots and their number,
\* each file once, also when a root of the list lies inside another; roots
\* that do not exist add nothing.
C10_ScanCountsEachFileOnce ==
  call.op = "scan_cleanup_items" =>
    \A i \in 1..Len(call.result) :
      LET c == call.result[i] IN
      c.kind.tag = "Standard" =>
        /\ c.file_count = Cardinality(FilesUnderRoots(call.pre, c.roots))
        /\ c.size_bytes = SumSizes(FilesUnderRoots(call.pre, c.roots))

\* the state C10 fails in: the root list of temp_files holds a root inside
\* another root and the scan reports more files than there are
C10_CountedTwice ==
  /\ call.op = "scan_cleanup_items"
  /\ \E i \in 1..Len(call.result) :
       LET c == call.result[i] IN
       /\ c.id = "temp_files"
       /\ \E j, k \in 1..Len(c.roots) :
            j # k /\ IsUnder(Resolve(c.roots[j]), Resolve(c.roots[k]))
       /\ c.file_count > Cardinality(FilesUnderRoots(call.pre, c.roots))

\* the catalog entry of a category id of the catalog
DefOf(id) == FindCategory(build_categories(env), id).v

\* the files under the roots that pass the time filter of the kind
MatchingFiles(f, roots, kind) ==
  {n \in FilesUnderRoots(f, roots) :
     kind.tag = "DownloadsOlderThan" => OlderThan(n, kind.days)}

\* C11: a category cleaned by the walk, without exclusions and without
\* included paths, all of whose removals succeed, reports the deleted_bytes
\* and deleted_count that the scan of the same filesystem at the same time
\* reports as size and number; exactly the files the filter admits are gone
\* and every other file is still there.
C11_ScanCleanAgree ==
  call.op = "clean_categories" =>
    \A i \in 1..Len(call.trace) :
      LET c == call.trace[i] IN
      (/\ c.mode = "walk"
       /\ ExcludedFor(call.req, c.id) = {}
       /\ IncludedFor(call.req, c.id) = << >>
       /\ c.failed = << >>) =>
         LET scan == scan_category(DefOf(c.id), now, c.pre) IN
         /\ c.deleted_bytes = scan.size_bytes
         /\ c.deleted_count = scan.file_count
         /\ FilesGone(c.pre, c.post) = MatchingFiles(c.pre, c.roots, c.kind)

\* the state C11 fails in: temp_files, one root inside another, is walked
\* without a failure and reports fewer files than the scan of the same
\* filesystem counts
C11_ScanCountsMore ==
  /\ call.op = "clean_categories"
  /\ \E i \in 1..Len(call.trace) :
       LET c == call.trace[i] IN
       /\ c.id = "temp_files" /\ c.mode = "walk" /\ c.failed = << >>
       /\ ExcludedFor(call.req, c.id) = {}
       /\ c.deleted_count = Cardinality(FilesGone(c.pre, c.post))
       /\ c.deleted_count < scan_category(DefOf(c.id), now, c.pre).file_count

\* checked_sub gives None: now minus the days of the kind is not representable
Underflows(kind) ==
  kind.tag = "DownloadsOlderThan" /\ now - kind.days * SecsPerDay < TimeMin

Readable(n) == ModifiedOf(n) # NoTime

BeforeEpoch(n) == ModifiedOf(n) # NoTime /\ ModifiedOf(n) < UNIX_EPOCH

\* the files under the roots of category c that satisfy P, in filesystem f
Under(f, roots, P(_)) == {n \in FilesUnderRoots(f, roots) : P(n)}

\* C12 as stated: when now minus N days is not representable, every file
\* with a readable modification time matches: the scan counts all of them,
\* the walk removes all of them, and the list shows no other file.
C12_UnderflowMatchesAll ==
  /\ call.op = "scan_cleanup_items" =>
       \A i \in 1..Len(call.result) :
         LET c == call.result[i] IN
         Underflows(c.kind) =>
           c.file_count = Cardinality(Under(call.pre, c.roots, Readable))
  /\ call.op = "clean_categories" =>
       \A i \in 1..Len(call.trace) :
         LET c == call.trace[i] IN
         (/\ Underflows(c.kind) /\ c.mode = "walk" /\ c.failed = << >>
          /\ ExcludedFor(call.req, c.id) = {}) =>
            FilesGone(c.pre, c.post) = Under(c.pre, c.roots, Readable)

\* C12: when now minus N days is not representable the cutoff is the Unix
\* epoch: the scan counts, the list shows and the walk removes exactly the
\* files modified before the epoch; a file modified at or after the epoch,
\* or without a modification time, is not counted, listed or removed.
C12_UnderflowClampsToEpoch ==
  /\ call.op = "scan_cleanup_items" =>
       \A i \in 1..Len(call.result) :
         LET c == call.result[i] IN
         Underflows(c.kind) =>
           /\ c.file_count = Cardinality(Under(call.pre, c.roots, BeforeEpoch))
           /\ c.size_bytes = SumSizes(Under(call.pre, c.roots, BeforeEpoch))
  /\ call.op = "clean_categories" =>
       \A i \in 1..Len(call.trace) :
         LET c == call.trace[i] IN
         Underflows(c.kind) =>
           /\ \A n \in c.pre \ c.post : BeforeEpoch(n)
           /\ (/\ c.mode = "walk" /\ c.failed = << >>
               /\ ExcludedFor(call.req, c.id) = {}) =>
                 FilesGone(c.pre, c.post) = Under(c.pre, c.roots, BeforeEpoch)
  /\ (call.op = "list_category_items" /\ call.result.ok) =>
       (Underflows(call.result.kind) =>
          \A j \in 1..Len(call.result.value.items) :
            BeforeEpoch(Resolve(call.result.value.items[j].path)))

\* downloads_old was walked on the early clock: the two files modified before
\* the epoch are gone, the file modified after it and the file without a
\* modification time are still there
C12_AfterEpochKept ==
  /\ call.op = "clean_categories"
  /\ \E i \in 1..Len(call.trace) :
       LET c == call.trace[i] IN
       /\ Underflows(c.kind) /\ c.mode = "walk"
       /\ {nO, nP} \subseteq c.pre \ c.post
       /\ {nV, nQ} \subseteq c.post
       /\ Readable(nV) /\ ~BeforeEpoch(nV)

PathsOf(seq) == [j \in 1..Len(seq) |-> seq[j].path]

NotOk(a) == ~a.ok

\* a category of the request that clean_category hands to the fast clear
FastCleared(req, c) ==
  /\ c.id \in {"system_cache", "browser_cache"}
  /\ c.id \in req.ids
  /\ IncludedFor(req, c.id) = << >>
  /\ ExcludedFor(req, c.id) = {}

\* C13: a fast-clear category asks for the removal of every root that
\* exists, each once and in root order, also after one of them failed; a
\* root whose removal succeeded is gone with all it held; every failed root
\* is a failure entry; the totals are the caller's categoryStats of the id
\* (zero when there are none) if no removal failed, and zero otherwise.
C13_FastClearAllOrNothing ==
  call.op = "clean_categories" =>
    \A i \in 1..Len(call.trace) :
      LET c == call.trace[i] IN
      FastCleared(call.req, c) =>
        LET stats == MapGet(call.req.category_stats, c.id)
            existing(r) == Exists(c.pre, r)
        IN  /\ PathsOf(c.log) = SelectSeq(c.roots, existing)
            /\ PathsOf(c.failed) = PathsOf(SelectSeq(c.log, NotOk))
            /\ \A j \in 1..Len(c.log) :
                 c.log[j].ok => ~ \E n \in c.post : IsUnder(c.log[j].node, n)
            /\ IF \A j \in 1..Len(c.log) : c.log[j].ok
                 THEN /\ c.deleted_bytes = (IF stats.some THEN stats.v.size_bytes ELSE 0)
                      /\ c.deleted_count = (IF stats.some THEN stats.v.file_count ELSE 0)
                 ELSE c.deleted_bytes = 0 /\ c.deleted_count = 0

\* system_cache with categoryStats supplied: the first root could not be
\* removed, the second was removed after it, and the totals are zero
C13_FailedRootZeroes ==
  /\ call.op = "clean_categories"
  /\ \E i \in 1..Len(call.trace) :
       LET c == call.trace[i] IN
       /\ FastCleared(call.req, c)
       /\ c.id \in DOMAIN call.req.category_stats
       /\ Len(c.log) = 2 /\ ~c.log[1].ok /\ c.log[2].ok
       /\ nH \in c.pre \ c.post
       /\ Len(c.failed) = 1 /\ c.failed[1].path = c.roots[1]
       /\ c.deleted_bytes = 0 /\ c.deleted_count = 0

\* what the traversal of a root list visits, in order: a root that is a file,
\* or the walk of a root that is a directory; a root that does not exist
\* has nothing to visit
RECURSIVE Traversal(_, _, _)
Traversal(f, roots, i) ==
  IF i > Len(roots) THEN << >>
  ELSE (IF ~Exists(f, roots[i]) THEN << >>
        ELSE IF IsFile(f, roots[i])
          THEN << [path |-> roots[i], node |-> Resolve(roots[i]),
                   is_dir |-> FALSE, is_file |-> TRUE] >>
          ELSE WalkDir(f, roots[i]))
       \o Traversal(f, roots, i + 1)

\* the visited entry is a file the time filter of the kind admits
Listable(entry, kind) ==
  /\ entry.is_file
  /\ kind.tag = "DownloadsOlderThan" => OlderThan(entry.node, kind.days)

\* the positions of the first n listable entries of the traversal T
FirstListable(T, kind, n) ==
  {j \in 1..Len(T) :
     /\ Listable(T[j], kind)
     /\ Cardinality({k \in 1..j : Listable(T[k], kind)}) <= n}

\* the limit the command hands on
EffectiveLimit(limit) ==
  IF ~limit.some THEN DefaultListLimit
  ELSE IF limit.v < MaxListLimit THEN limit.v ELSE MaxListLimit

Max(S) == IF S = {} THEN 0 ELSE CHOOSE x \in S : \A y \in S : y <= x

\* C14: listCategoryItems returns the first limit listable files of the
\* traversal, in traversal order, and hasMore is true exactly when the limit
\* was reached and an entry of the traversal lies behind the last listed
\* item: it is false when the last listed item is the last entry there is to
\* visit, and false for every limit when there is nothing to visit.
C14_ListFirstLimit ==
  (call.op = "list_category_items" /\ call.result.ok) =>
    LET T     == Traversal(call.pre, call.result.roots, 1)
        limit == EffectiveLimit(call.limit)
        first == FirstListable(T, call.result.kind, limit)
        items == call.result.value.items
    IN  /\ Len(items) <= limit
        /\ Len(items) = Cardinality(first)
        /\ \A j \in first :
             items[Cardinality({k \in first : k <= j})].path = T[j].path
        /\ call.result.value.has_more
             <=> (Cardinality(first) >= limit /\ Max(first) < Len(T))

\* the state C14 fails in: recycle_bin listed with limit 1; the one file of
\* C:\r is listed, it is the last entry there is to visit because D:\r does
\* not exist, and hasMore is true
C14_MoreWithNothingLeft ==
  /\ call.op = "list_category_items" /\ call.result.ok
  /\ call.id = "recycle_bin" /\ call.limit = Some(1)
  /\ Len(call.result.value.items) = 1
  /\ LET T == Traversal(call.pre, call.result.roots, 1)
     IN  T[Len(T)].path = call.result.value.items[1].path
  /\ call.result.value.has_more

\* the directory's own name contains a keyword
KeywordNamed(d) ==
  Len(d) > 1 /\ \E k \in 1..Len(Keywords) : contains(d[Len(d)], Keywords[k])

\* the directories above the node n, the volume root aside
Ancestors(n) == {SubSeq(n, 1, k) : k \in 2..(Len(n) - 1)}

\* the files the scanner observed whose nearest keyword-named ancestor is d
CreditedTo(f, d) ==
  {n \in f \cap FileNodes :
     /\ IsUnder(VolC, n)
     /\ d \in Ancestors(n)
     /\ KeywordNamed(d)
     /\ \A a \in Ancestors(n) : KeywordNamed(a) => Len(a) <= Len(d)}

\* C15: in a scanLargeItems result no file item is smaller than the
\* threshold; every directory item names a keyword-named directory, its size
\* is the sum of the sizes of the observed files whose nearest keyword-named
\* ancestor it is, that sum reaches the threshold, and no two directory
\* items have the same normalized path.
C15_LargeItemSizes ==
  call.op = "scan_large_items" =>
    LET items == call.result
        min   == min_size_bytes_of(call.min_size_mb)
    IN  /\ Len(items) <= large_limit(call.limit)
        /\ \A j \in 1..Len(items) :
             IF items[j].is_dir
               THEN LET d == Resolve(items[j].path) IN
                    /\ d \in call.pre \cap DirNodes
                    /\ KeywordNamed(d)
                    /\ items[j].size_bytes = SumSizes(CreditedTo(call.pre, d))
                    /\ items[j].size_bytes >= min
               ELSE /\ Resolve(items[j].path) \in call.pre \cap FileNodes
                    /\ items[j].size_bytes = SizeOf(Resolve(items[j].path))
                    /\ items[j].size_bytes >= min
        /\ \A j, k \in 1..Len(items) :
             (items[j].is_dir /\ items[k].is_dir /\ j # k) =>
               normalize_path(items[j].path) # normalize_path(items[k].path)

\* a scan with threshold 1 MB where one keyword-named directory lies inside
\* another: the inner one is an item with the 2 MB of its file, the outer
\* one, left with the 128 bytes of its own file, is none
C15_NestedKeywordDirs ==
  /\ call.op = "scan_large_items" /\ call.min_size_mb = Some(1)
  /\ {nE, nX} \subseteq call.pre
  /\ KeywordNamed(nLT) /\ KeywordNamed(nLTT)
  /\ \E j \in 1..Len(call.result) :
       /\ call.result[j].is_dir
       /\ Resolve(call.result[j].path) = nLTT
       /\ call.result[j].size_bytes = SizeOf(nX)
  /\ \E j \in 1..Len(call.result) :
       ~call.result[j].is_dir /\ Resolve(call.result[j].path) = nX
  /\ ~ \E j \in 1..Len(call.result) : Resolve(call.result[j].path) = nLT

\* the ids the catalog defines
CatalogIds == {build_categories(env)[i].id : i \in 1..Len(build_categories(env))}

\* the ids a clean request names: in ids, as a key of includedPaths or of
\* excludedPaths
NamedIds(req) ==
  req.ids \cup (DOMAIN req.included_paths) \cup (DOMAIN req.excluded_paths)

\* C16: listCategoryItems with an id the catalog does not define returns the
\* error "Unknown cleanup category."; cleanCategories whose ids,
\* includedPaths or excludedPaths name such an id returns an error, no
\* CleanupResult, and leaves the filesystem as it was.
C16_UnknownIdFails ==
  /\ (call.op = "list_category_items" /\ call.id \notin CatalogIds) =>
       (~call.result.ok /\ call.result.err = MsgUnknownCategory)
  /\ (call.op = "clean_categories" /\ ~(NamedIds(call.req) \subseteq CatalogIds)) =>
       (~call.ok /\ call.post = call.pre)

\* the state C16 fails in: a request whose ids hold an undefined id next to
\* temp_files is answered with a CleanupResult and has removed files
C16_UnknownIdCleaned ==
  /\ call.op = "clean_categories"
  /\ UnknownId \in call.req.ids /\ UnknownId \notin CatalogIds
  /\ call.ok
  /\ call.result.deleted_count > 0
  /\ FilesGone(call.pre, call.post) # {}

\* listCategoryItems alone: an undefined id is answered with the error
C16_ListUnknown ==
  (call.op = "list_category_items" /\ call.id \notin CatalogIds) =>
    (~call.result.ok /\ call.result.err = MsgUnknownCategory)

\* the directories of f at or under a root of the list that is a directory
DirsUnderRoots(f, roots) ==
  {d \in f \cap DirNodes :
     \E i \in 1..Len(roots) : IsDir(f, roots[i]) /\ IsUnder(Resolve(roots[i]), d)}

DirAttempts(log) == {j \in 1..Len(log) : log[j].op = "remove_dir"}

\* what C17 says of the order of the walk-and-delete of category c and of
\* what it reports: files first, then every visited directory and every
\* root, deepest first, no directory before one that lies under it; no
\* failure entry for a directory; no attempt on a directory without the flag
WalkOrder(c) ==
  LET dirs == DirAttempts(c.log) IN
  /\ \A j \in dirs : \A k \in 1..Len(c.log) : c.log[k].op = "remove_file" => k < j
  /\ \A j, k \in dirs :
       j < k => /\ components_count(c.log[j].path) >= components_count(c.log[k].path)
                /\ ~StrictlyUnder(c.log[j].node, c.log[k].node)
  /\ \A j \in dirs : FailuresOf(c.failed, c.log[j].path) = 0
  /\ IF DefOf(c.id).cleanup_dirs
       THEN {c.log[j].node : j \in dirs} = DirsUnderRoots(c.pre, c.roots)
       ELSE dirs = {} /\ (c.pre \ c.post) \cap DirNodes = {}

\* C17 as stated: the order of WalkOrder, and after the call a directory at
\* or under the roots is still there if and only if it holds an entry.
C17_EmptyDirsGone ==
  call.op = "clean_categories" =>
    \A i \in 1..Len(call.trace) :
      LET c == call.trace[i] IN
      c.mode = "walk" =>
        /\ WalkOrder(c)
        /\ DefOf(c.id).cleanup_dirs =>
             \A d \in DirsUnderRoots(c.pre, c.roots) :
               d \in c.post <=> HasChildren(c.post, d)

\* C17: in the walk-and-delete of a category every file removal comes before
\* every directory removal; with the flag, every visited directory and every
\* root is attempted, deepest first, none before a directory under it, and
\* afterwards a directory at or under the roots is still there if and only
\* if it holds an entry or the system refused to remove it; a failed
\* directory removal adds no failure entry; without the flag no directory is
\* attempted or removed.
C17_DirsDeepestFirst ==
  call.op = "clean_categories" =>
    \A i \in 1..Len(call.trace) :
      LET c == call.trace[i] IN
      c.mode = "walk" =>
        /\ WalkOrder(c)
        /\ DefOf(c.id).cleanup_dirs =>
             \A d \in DirsUnderRoots(c.pre, c.roots) :
               d \in c.post <=> (HasChildren(c.post, d) \/ d \in locked)

\* temp_files was walked while C:\w\tmp\d could not be removed: its file is
\* gone, it is still there and empty, the root above it is still there, and
\* the answer lists no failure
C17_LockedDirStays ==
  /\ call.op = "clean_categories"
  /\ \E i \in 1..Len(call.trace) :
       LET c == call.trace[i] IN
       /\ c.id = "temp_files" /\ c.mode = "walk"
       /\ nWTD \in locked
       /\ {nA, nB} \subseteq c.pre \ c.post
       /\ nWTD \in c.post /\ ~HasChildren(c.post, nWTD)
       /\ nWT \in c.post
       /\ \E j, k \in DirAttempts(c.log) :
            j < k /\ c.log[j].node = nWTD /\ ~c.log[j].ok /\ c.log[k].node = nWT
       /\ c.failed = << >>

\* the files request w removed and counted
Counted(w) ==
  LET log == workers[w].acc.log IN
  {log[j].node : j \in {k \in 1..Len(log) : log[k].op = "remove_file" /\ log[k].ok}}

\* the files request w tried to remove after another had
Lost(w) ==
  LET log == workers[w].acc.log IN
  {j \in 1..Len(log) : log[j].op = "remove_file" /\ ~log[j].ok /\ log[j].node \notin locked}

\* C18: while two requests clean the same category at once, whatever the
\* order of their steps, no file is counted by both; each request's
\* deleted_count and deleted_bytes are the number and the size of the files
\* it removed itself, so the two sums are the number and the size of the
\* files that are gone; and a request that finds a file gone that it was
\* about to remove counts nothing for it and lists it as a failure.
C18_CountedByOne ==
  LET gone == (NodeSet \ fs) \cap FileNodes IN
  /\ Counted(1) \cap Counted(2) = {}
  /\ Counted(1) \cup Counted(2) = gone
  /\ \A w \in Workers :
       /\ workers[w].acc.deleted_count = Cardinality(Counted(w))
       /\ workers[w].acc.deleted_bytes = SumSizes(Counted(w))
       /\ \A j \in Lost(w) :
            /\ workers[w].acc.log[j].node \notin Counted(w)
            /\ FailuresOf(workers[w].acc.failed, workers[w].acc.log[j].path) >= 1
  /\ workers[1].acc.deleted_count + workers[2].acc.deleted_count = Cardinality(gone)
  /\ workers[1].acc.deleted_bytes + workers[2].acc.deleted_bytes = SumSizes(gone)

\* both requests are done: each removed and counted a file, and one of them
\* read the metadata of a file, found it removed by the other when it came
\* to remove it, and lists it as a failure
C18_LostRace ==
  /\ \A w \in Workers : workers[w].pc = "done"
  /\ Counted(1) # {} /\ Counted(2) # {}
  /\ \E w \in Workers : \E j \in Lost(w) :
       /\ workers[w].acc.log[j].node \in Counted(3 - w)
       /\ FailuresOf(workers[w].acc.failed, workers[w].acc.log[j].path) = 1

====
